---- MODULE Spec2Model ----
(***************************************************************************)
(* Verification model of the Aideon agent: the invoice table, the agent    *)
(* main loop (run_agent), the per-invoice pipeline (process_invoice with   *)
(* Steps 1-4), the invoice form and the inbound deeplink callback of the   *)
(* admin application, the proxy pool manager, the PrMoney fetcher and      *)
(* worker (payload parsing, status filter, watermark, row mapping), the    *)
(* process registry of workers.py, the date normalization of Step 3, the   *)
(* deeplink extraction of Step 4 on characters, and BrowserTool's start    *)
(* and close.  SpecLive is the agent under fair scheduling.                *)
(*                                                                         *)
(* The agent is one asyncio process: code between two awaits runs without  *)
(* interleaving with the other tasks of the process.  The admin            *)
(* application and the PrMoney worker are other OS processes and may       *)
(* touch the tables between any two steps of the agent.  Database          *)
(* statements commit in every specification except SpecFaulty, which adds  *)
(* the steps at which a statement raises.                                  *)
(***************************************************************************)
EXTENDS Integers, Sequences, FiniteSets, TLC

VARIABLES
    invoices,      \* table "invoices": id -> row (models.Invoice)
    step4Variant,  \* which step4_wait_for_deeplink of multitransfer_step4.py is deployed
    loopPc,        \* position of run_agent's while-True loop
    tasks,         \* run_agent.tasks: the tracked asyncio tasks (task numbers)
    task,          \* every task created so far: number -> record
    found_new,     \* run_agent.found_new
    callbacks,     \* the payloads invoice_deeplink_callback has served
    cpc,           \* concurrent callers of get_next_invoice: position
    sel,           \* concurrent callers: the row read by the SELECT
    claimed,       \* concurrent callers: the invoices returned so far
    proxies,       \* table "proxies": id -> row (models.Proxy)
    now,           \* datetime.utcnow() as seen by the proxy manager
    lastCfg,       \* the last result of get_next_proxy_for_launch
    failsSince,    \* per proxy: mark_proxy_fail calls since the last mark_proxy_success
    settings,      \* table "settings": key -> value (models.Setting)
    prm,           \* the PrMoney worker: position and locals of _poll_prmoney_once;
                   \* data, the JSON array the aggregator currently serves;
                   \* considered, the ids handed to _create_invoice_from_prmoney
                   \* in the last cycle
    response,      \* HTTP status of the last response of the admin application
    workers,       \* workers.py: the tracked processes and the processes alive
    norm,          \* a call of _normalize_date_for_multitransfer and the call on its result
    extract,       \* a call of _extract_deeplink_from_text: the text and the result
    bg,            \* the last exit of Step 4: the task, the variant, the state of
                   \* the background task (nspk_task, hb_task) and whether its
                   \* "response" handler is still on the page
    tool,          \* a BrowserTool: its references, the Playwright objects left
                   \* open, and what the last start() or close() did
    fill,          \* the last run of Step 3: the task, what the two ways of filling
                   \* a field gave, and whether the field was filled
    race           \* the last run of the race variant of Step 4: the task and what
                   \* the final-screen wait, the network channel and the console
                   \* channel gave

loopVars  == <<loopPc, tasks, found_new>>
callVars  == <<cpc, sel, claimed>>
proxyVars == <<proxies, now, lastCfg>>
extVars   == <<failsSince, settings, prm, response, workers>>
unitVars  == <<norm, extract, bg, tool, fill, race>>
vars == <<invoices, step4Variant, loopPc, tasks, task, found_new, callbacks,
          cpc, sel, claimed, proxies, now, lastCfg,
          failsSince, settings, prm, response, workers, norm, extract, bg, tool,
          fill, race>>

\* Python's None is the empty wrapper, a present value x is <<x>>
None == <<>>
Some(x) == <<x>>

(***************************************************************************)
(* Bounds of the model.                                                    *)
(***************************************************************************)
NumInvoices   == 1    \* rows of the invoice table in Spec
MaxCallbacks  == 1    \* callback requests served in Spec
LoopInvoices  == 11   \* rows of the invoice table in SpecLoop
NumCallers    == 3    \* concurrent callers of get_next_invoice in SpecAdmission
AdmInvoices   == 3    \* rows of the invoice table in SpecAdmission
NumProxies    == 3    \* rows of the proxy table in SpecProxy
MaxClock      == 3    \* the clock of SpecProxy stops here
MaxFail       == 4    \* mark_proxy_fail is not called on a fail_count this high
FaultInvoices == 2    \* rows of the invoice table at the start of SpecFaulty
IsoInvoices   == 1    \* rows of the invoice table at the start of SpecIsolation
FieldInvoices == 1    \* rows of the invoice table at the start of SpecFields
CbInvoices    == 3    \* rows of the invoice table in SpecCallback
MaxSpawn      == 4    \* processes spawned in SpecWorkers
MaxFetch      == 1    \* objects in the array served in SpecFetch
MaxFeed       == 2    \* objects in one array served by the aggregator in SpecPrmoney

(***************************************************************************)
(* Program constants.                                                      *)
(***************************************************************************)
MAX_CONCURRENT_INVOICES == 10

(***************************************************************************)
(* Texts.  A text is a sequence of whitespace-separated tokens; the tables *)
(* below give, for each token of the model's alphabet, what the regular    *)
(* expression and the string operations of the code compute on it.         *)
(***************************************************************************)
Tokens == {"noise", "https://qr.nspk.ru/A", "(sbpqr://B),", "https://example.com/foo",
           "qr.nspk.ru/C"}

\* _DEEPLINK_URL_RE.findall on one token: the scheme://... piece, "" when there is none
UrlIn(tok) ==
    CASE tok = "https://qr.nspk.ru/A"    -> "https://qr.nspk.ru/A"
      [] tok = "(sbpqr://B),"            -> "sbpqr://B),"
      [] tok = "https://example.com/foo" -> "https://example.com/foo"
      [] OTHER                            -> ""

\* _clean: url.strip().strip("',\"()[]{}")
_clean(url) == IF url = "sbpqr://B)," THEN "sbpqr://B" ELSE url

DEEP_LINK_KEYWORDS == {"qr.nspk.ru", "SBPQR://", "sbpqr://", "mcash://"}

\* k in s, for the strings of the model
KeywordIn(k, s) ==
    \/ k = "qr.nspk.ru" /\ s \in {"https://qr.nspk.ru/A", "qr.nspk.ru/C", "https://qr.nspk.ru/CB"}
    \/ k = "sbpqr://"   /\ s \in {"(sbpqr://B),", "sbpqr://B),", "sbpqr://B"}

\* any(k in text for k in DEEP_LINK_KEYWORDS), text a sequence of tokens
HasKeyword(text) ==
    \E n \in 1..Len(text) : \E k \in DEEP_LINK_KEYWORDS : KeywordIn(k, text[n])

RECURSIVE FirstDeeplink(_, _)
FirstDeeplink(text, n) ==
    IF n > Len(text) THEN None
    ELSE LET raw == UrlIn(text[n]) IN
         IF raw # "" /\ (\E k \in DEEP_LINK_KEYWORDS : KeywordIn(k, _clean(raw)))
         THEN Some(<<_clean(raw)>>)
         ELSE FirstDeeplink(text, n + 1)

\* _extract_deeplink_from_text(text), text an optional text: None, or Some(deeplink)
_extract_deeplink_from_text(text) ==
    IF text = None \/ text[1] = <<>> THEN None ELSE FirstDeeplink(text[1], 1)

(***************************************************************************)
(* Error messages: the prefix the message starts with, its wording, and    *)
(* the value interpolated into it.                                         *)
(***************************************************************************)
Msg(prefix, text, arg) == [prefix |-> prefix, text |-> text, arg |-> arg]

\* error_msg.startswith("[STEP4]")
StartsWithStep4(msg) == msg.prefix = "[STEP4]"

\* the message is not the empty string
NonEmptyMsg(msg) == msg.prefix # "" \/ msg.text # ""

(***************************************************************************)
(* The invoice table.                                                      *)
(***************************************************************************)
\* len(p) of the words bank names are made of
WordLen(w) == CASE w = "AB" -> 2 [] w = "UZUM" -> 4 [] w = "Bank" -> 4 [] OTHER -> 7

\* what the operator may type into the creation form: recipient_bank and amount
Form(bank, amount) == [recipient_bank |-> bank, amount |-> amount]

InvoiceForms ==
    { Form(<<"UZUM", "Bank">>, 100), Form(<<"AB", "Kapital">>, 100),
      Form(<<>>, 100), Form(<<"UZUM", "Bank">>, 0) }

\* Invoice(...) as admin_app.invoices_create inserts it, in row i
NewInvoice(i, form) ==
    [invoice_id     |-> 100 + i,
     amount         |-> form.amount,
     recipient_bank |-> form.recipient_bank,
     status         |-> "queued",
     deeplink       |-> None,
     error_message  |-> None]

\* the table after n creations of the same form
SeededTable(n) == [i \in 1..n |-> NewInvoice(i, Form(<<"UZUM", "Bank">>, 100))]

InvIds == DOMAIN invoices

Min(S) == CHOOSE x \in S : \A y \in S : x <= y

\* the query with the order reversed
FirstQueuedMax(db) ==
    LET q == {i \in DOMAIN db : db[i].status = "queued"} IN
    IF q = {} THEN 0 ELSE CHOOSE x \in q : \A y \in q : x >= y

\* db.query(Invoice).filter(Invoice.status == "queued").order_by(Invoice.id.asc()).first()
FirstQueued(db) ==
    LET q == {i \in DOMAIN db : db[i].status = "queued"} IN
    IF q = {} THEN 0 ELSE Min(q)

\* inv.status = "processing"; db.commit()  (UPDATE ... WHERE invoices.id = :id)
MarkProcessing(db, i) == [db EXCEPT ![i].status = "processing"]

\* db.query(Invoice).filter(Invoice.id == id).first()
FindById(db, id) == IF id \in DOMAIN db THEN id ELSE 0

\* db.query(Invoice).filter(Invoice.invoice_id == str(ext)).first()
FindByExt(db, ext) ==
    LET m == {i \in DOMAIN db : db[i].invoice_id = ext} IN
    IF m = {} THEN 0 ELSE Min(m)

(***************************************************************************)
(* Writers of the invoice table and of the outbound webhook.               *)
(***************************************************************************)

\* the row write without the filter on the id: every row is finalized
_finalize_invoice_error_all_rows(db, invoice_id, error_message) ==
    [db   |-> [i \in DOMAIN db |->
                 [db[i] EXCEPT !.status = "error",
                               !.error_message = Some(error_message),
                               !.deeplink = None]],
     hook |-> [status |-> "No Terminals", deeplink |-> <<>>,
               error |-> Some(error_message)]]

\* agent._finalize_invoice_error_any_step: the row write, then the POST
_finalize_invoice_error_any_step(db, invoice_id, error_message) ==
    [db   |-> IF FindById(db, invoice_id) # 0
              THEN [db EXCEPT ![invoice_id].status = "error",
                              ![invoice_id].error_message = Some(error_message),
                              ![invoice_id].deeplink = None]
              ELSE db,
     hook |-> [status |-> "No Terminals", deeplink |-> <<>>,
               error |-> Some(error_message)]]

\* multitransfer_step4._update_local_invoice
_update_local_invoice(db, inv_id, inv_ext, deeplink, status, error_message) ==
    LET byId == FindById(db, inv_id)
        inv  == IF byId # 0 THEN byId ELSE FindByExt(db, inv_ext)
    IN  IF inv = 0 THEN db
        ELSE [db EXCEPT ![inv].deeplink = deeplink,
                        ![inv].status = status,
                        ![inv].error_message = error_message]

\* the body without the error key
_send_webhook_without_error(deeplink, status, error_reason) ==
    [status   |-> status,
     deeplink |-> IF deeplink = None THEN <<>> ELSE deeplink[1],
     error    |-> None]

\* multitransfer_step4._send_webhook: the JSON body that is POSTed
_send_webhook(deeplink, status, error_reason) ==
    [status   |-> status,
     deeplink |-> IF deeplink = None THEN <<>> ELSE deeplink[1],
     error    |-> IF error_reason # None /\ NonEmptyMsg(error_reason[1])
                  THEN error_reason ELSE None]

(***************************************************************************)
(* get_next_invoice and the main loop of run_agent.                        *)
(***************************************************************************)

\* agent.get_next_invoice run without interleaving: the row returned (0 for None)
\* and the table after the commit
get_next_invoice(db) ==
    LET inv == FirstQueued(db) IN
    IF inv = 0 THEN [inv |-> 0, db |-> db]
    ELSE [inv |-> inv, db |-> MarkProcessing(db, inv)]

\* the loop condition off by one
HasFreeSlotOffByOne(n) == n <= MAX_CONCURRENT_INVOICES

\* while len(tasks) < MAX_CONCURRENT_INVOICES
HasFreeSlot(n) == n < MAX_CONCURRENT_INVOICES

\* asyncio.create_task(_runner(invoice)): the new task waits for the semaphore
NewTask(inv) ==
    [inv |-> inv, pc |-> "wait_slot", sent |-> <<>>, steps |-> <<>>,
     exc |-> None, ret |-> None]

TaskIds == 1..Len(task)

IsDone(t) == task[t].pc = "done"

\* asyncio.Semaphore(MAX_CONCURRENT_INVOICES): the permits left
SemaphoreValue ==
    MAX_CONCURRENT_INVOICES
      - Cardinality({t \in TaskIds : task[t].pc \notin {"wait_slot", "done"}})

\* top of the while-True loop: done = {t for t in tasks if t.done()}; tasks -= done
LoopReap ==
    /\ loopPc = "sleep"
    /\ tasks' = {t \in tasks : ~IsDone(t)}
    /\ found_new' = FALSE
    /\ loopPc' = "dequeue"
    /\ UNCHANGED <<invoices, step4Variant, task, callbacks, callVars, proxyVars, extVars, unitVars>>

\* one turn of the inner while: get_next_invoice, create_task, tasks.add
LoopDequeue ==
    /\ loopPc = "dequeue"
    /\ HasFreeSlot(Cardinality(tasks))
    /\ LET got == get_next_invoice(invoices) IN
        /\ got.inv # 0
        /\ invoices' = got.db
        /\ task' = Append(task, NewTask(got.inv))
        /\ tasks' = tasks \cup {Len(task) + 1}
        /\ found_new' = TRUE
    /\ UNCHANGED <<step4Variant, loopPc, callbacks, callVars, proxyVars, extVars, unitVars>>

\* the inner while ends (no slot, or get_next_invoice returned None); the loop
\* then sleeps 1 s with tasks, 5 s without
LoopSleep ==
    /\ loopPc = "dequeue"
    /\ ~HasFreeSlot(Cardinality(tasks)) \/ get_next_invoice(invoices).inv = 0
    /\ loopPc' = "sleep"
    /\ UNCHANGED <<invoices, step4Variant, tasks, task, found_new, callbacks, callVars, proxyVars, extVars, unitVars>>

(***************************************************************************)
(* process_invoice.  A task runs only while the loop sleeps.               *)
(***************************************************************************)

CanRun(t, pc) == loopPc = "sleep" /\ t \in TaskIds /\ task[t].pc = pc

\* step n has been entered
Entered(steps, n) == IF n = 0 THEN steps ELSE Append(steps, n)

\* an except branch that finalizes the row and lets the task try the step again
ProcessInvoiceExceptRetry(t, e, n) ==
    LET fin == _finalize_invoice_error_any_step(invoices, task[t].inv, e) IN
    /\ invoices' = fin.db
    /\ task' = [task EXCEPT ![t].steps = Entered(@, n),
                            ![t].sent = Append(@, fin.hook)]

\* the except branch of process_invoice after an exception in step n (0: before
\* Step 1), then the end of the task
ProcessInvoiceExcept(t, e, n) ==
    LET fin == _finalize_invoice_error_any_step(invoices, task[t].inv, e) IN
    IF ~StartsWithStep4(e)
    THEN /\ invoices' = fin.db
         /\ task' = [task EXCEPT ![t].pc = "done", ![t].exc = Some(e),
                                 ![t].steps = Entered(@, n),
                                 ![t].sent = Append(@, fin.hook)]
    ELSE /\ invoices' = invoices
         /\ task' = [task EXCEPT ![t].pc = "done", ![t].exc = Some(e),
                                 ![t].steps = Entered(@, n)]

\* _runner takes a permit; context.new_page(); helper JS; the row is re-read.
\* outcomes: whether new_page may succeed (TRUE) or raise (FALSE)
OpenPageWith(t, outcomes) ==
    /\ CanRun(t, "wait_slot")
    /\ SemaphoreValue > 0
    /\ \E opened \in outcomes :
        IF ~opened
        THEN \* new_page raised: outside the try block, the task ends with the exception
             task' = [task EXCEPT ![t].pc = "done",
                                  ![t].exc = Some(Msg("", "BrowserContext.new_page failed", <<>>))]
        ELSE IF FindById(invoices, task[t].inv) = 0
        THEN task' = [task EXCEPT ![t].pc = "done"]
        ELSE task' = [task EXCEPT ![t].pc = "goto"]
    /\ UNCHANGED <<invoices, step4Variant, loopVars, callbacks, callVars, proxyVars, extVars, unitVars>>

OpenPage(t) == OpenPageWith(t, BOOLEAN)

\* await page.goto(base_url); outcomes: whether it may succeed or raise
GotoWith(t, outcomes) ==
    /\ CanRun(t, "goto")
    /\ \E ok \in outcomes :
        IF ok THEN /\ task' = [task EXCEPT ![t].pc = "step1"]
                   /\ invoices' = invoices
        ELSE ProcessInvoiceExcept(t, Msg("", "Page.goto failed", <<>>), 0)
    /\ UNCHANGED <<step4Variant, loopVars, callbacks, callVars, proxyVars, extVars, unitVars>>

Goto(t) == GotoWith(t, BOOLEAN)

(***************************************************************************)
(* Step 1: amount and method list.                                         *)
(***************************************************************************)
Step1Sites == {"ok", "no_amount_field", "no_method_block", "not_clickable", "page_error"}

\* step1_fill_amount_and_open_methods: None when it returns, else the exception
step1_fill_amount_and_open_methods(amount, site) ==
    IF amount <= 0 THEN Some(Msg("[STEP1]", "invalid amount", <<>>))
    ELSE CASE site = "no_amount_field" -> Some(Msg("[STEP1]", "amount field not found", <<>>))
           [] site = "no_method_block" -> Some(Msg("[STEP1]", "method block not visible", <<>>))
           [] site = "not_clickable"   -> Some(Msg("[STEP1]", "method block not clickable", <<>>))
           [] site = "page_error"      -> Some(Msg("", "Locator.click failed", <<>>))
           [] OTHER                    -> None

Step1(t) ==
    /\ CanRun(t, "step1")
    /\ \E site \in Step1Sites :
        LET e == step1_fill_amount_and_open_methods(invoices[task[t].inv].amount, site) IN
        IF e = None
        THEN /\ task' = [task EXCEPT ![t].pc = "step2", ![t].steps = Append(@, 1)]
             /\ invoices' = invoices
        ELSE /\ ProcessInvoiceExcept(t, e[1], 1)
    /\ UNCHANGED <<step4Variant, loopVars, callbacks, callVars, proxyVars, extVars, unitVars>>

(***************************************************************************)
(* Step 2: bank selection by visible text.                                 *)
(***************************************************************************)

\* str.lower() on the words of the model (get_by_text ignores case)
Lower(w) ==
    CASE w \in {"UZUM", "Uzum"} -> "uzum"
      [] w \in {"Bank", "BANK"} -> "bank"
      [] w = "AB" -> "ab"
      [] w = "Kapital" -> "kapital"
      [] OTHER -> w

LowerAll(text) == [n \in 1..Len(text) |-> Lower(text[n])]

\* search_variants: the full name, then every word of it with len(p) >= 3 that
\* is not in the list yet
RECURSIVE SearchVariantsFrom(_, _, _)
SearchVariantsFrom(parts, n, acc) ==
    IF n > Len(parts) THEN acc
    ELSE LET p == <<parts[n]>> IN
         IF WordLen(parts[n]) >= 3 /\ ~(\E k \in 1..Len(acc) : acc[k] = p)
         THEN SearchVariantsFrom(parts, n + 1, Append(acc, p))
         ELSE SearchVariantsFrom(parts, n + 1, acc)

SearchVariants(bank_name) == SearchVariantsFrom(bank_name, 1, <<bank_name>>)

\* page.get_by_text(text_variant, exact=False) finds an element: the text occurs,
\* case-insensitively, inside the element's text
TextMatches(needle, el) ==
    \E k \in 1..(Len(el) - Len(needle) + 1) :
        LowerAll(SubSeq(el, k, k + Len(needle) - 1)) = LowerAll(needle)

FoundOn(page, needle) == \E el \in page : TextMatches(needle, el)

\* the pages the site may show: the sets of visible element texts
Pages == { {}, {<<"UZUM", "BANK">>, <<"TBC">>}, {<<"Kapital", "Bank">>}, {<<"TBC">>} }

\* the two waves of the search loop: some variant is found and clicked
BankClicked(bank_name, page1, page2, clickable) ==
    /\ clickable
    /\ \E n \in 1..Len(SearchVariants(bank_name)) :
        \/ FoundOn(page1, SearchVariants(bank_name)[n])
        \/ FoundOn(page2, SearchVariants(bank_name)[n])

\* the message without the bank name
BankNotFoundMsgBare(bank_name) == Msg("[STEP2]", "BANK_NOT_FOUND", <<>>)

\* raise RuntimeError(f"[STEP2] BANK_NOT_FOUND: ... {bank_name!r}")
BankNotFoundMsg(bank_name) == Msg("[STEP2]", "BANK_NOT_FOUND", bank_name)

Step2Sites == {"ok", "page_error", "no_continue", "continue_error", "no_form"}

\* step2_select_bank: None when it returns, else the exception
step2_select_bank(bank_name, page1, page2, clickable, site) ==
    IF site = "page_error" THEN Some(Msg("", "Page.wait_for_timeout failed", <<>>))
    ELSE IF bank_name = <<>> THEN Some(Msg("[STEP2]", "BANK_NOT_SPECIFIED", <<>>))
    ELSE IF ~BankClicked(bank_name, page1, page2, clickable)
    THEN Some(BankNotFoundMsg(bank_name))
    ELSE CASE site = "no_continue"    -> Some(Msg("[STEP2]", "Continue button not found", <<>>))
           [] site = "continue_error" -> Some(Msg("[STEP2]", "error clicking Continue", <<>>))
           [] site = "no_form"        -> Some(Msg("[STEP2]", "recipient form did not appear", <<>>))
           [] OTHER                   -> None

Step2(t) ==
    /\ CanRun(t, "step2")
    /\ \E page1 \in Pages, page2 \in Pages, clickable \in BOOLEAN, site \in Step2Sites :
        LET e == step2_select_bank(invoices[task[t].inv].recipient_bank,
                                   page1, page2, clickable, site) IN
        IF e = None
        THEN /\ task' = [task EXCEPT ![t].pc = "step3", ![t].steps = Append(@, 2)]
             /\ invoices' = invoices
        ELSE /\ ProcessInvoiceExcept(t, e[1], 2)
    /\ UNCHANGED <<step4Variant, loopVars, callbacks, callVars, proxyVars, extVars, unitVars>>

(***************************************************************************)
(* Step 3: recipient and sender form; then status waiting_captcha.         *)
(***************************************************************************)
Step3Sites == {"ok", "recipient_fill", "sender_fill", "no_continue", "continue_error"}

\* step3_fill_recipient_and_sender: None when it returns, else the exception
step3_fill_recipient_and_sender(site) ==
    CASE site = "recipient_fill" -> Some(Msg("[STEP3]", "error filling recipient data", <<>>))
      [] site = "sender_fill"    -> Some(Msg("[STEP3]", "error filling sender data", <<>>))
      [] site = "no_continue"    -> Some(Msg("[STEP3]", "Continue button not found on the form", <<>>))
      [] site = "continue_error" -> Some(Msg("[STEP3]", "error clicking the Continue button", <<>>))
      [] OTHER                   -> None

\* inv_db.status = "waiting_captcha"; inv_db.error_message = None; db.commit()
MarkWaitingCaptcha(db, inv) ==
    [db EXCEPT ![inv].status = "waiting_captcha", ![inv].error_message = None]

\* what the two ways of filling one field may give: el.wait_for / el.fill by
\* label succeed, time out or raise; page.fill by name succeeds, raises, or
\* the field has no name_attr
FieldFills ==
    {[label |-> l, by_name |-> n] : l \in {"filled", "timeout", "error"},
                                    n \in {"filled", "error", "absent"}}

\* the field is found and filled by its label
FilledByLabel == [label |-> "filled", by_name |-> "absent"]

\* _fill_by_label_or_name for a non-empty value: both except branches print
\* and go on, the function returns in every case
_fill_by_label_or_name(f) ==
    IF f.label = "filled" THEN "filled"
    ELSE IF f.by_name = "filled" THEN "filled"
    ELSE "unfilled"

\* Step 3 with a field of the form behaving as one of fills
Step3With(t, fills) ==
    /\ CanRun(t, "step3")
    /\ \E site \in Step3Sites, f \in fills :
        LET e == step3_fill_recipient_and_sender(site) IN
        /\ fill' = [t |-> t, label |-> f.label, by_name |-> f.by_name,
                    result |-> _fill_by_label_or_name(f)]
        /\ IF e = None
           THEN /\ task' = [task EXCEPT ![t].pc = "step4", ![t].steps = Append(@, 3)]
                /\ invoices' = MarkWaitingCaptcha(invoices, task[t].inv)
           ELSE /\ ProcessInvoiceExcept(t, e[1], 3)
    /\ UNCHANGED <<step4Variant, loopVars, callbacks, callVars, proxyVars, extVars, tool, norm,
                   extract, bg, race>>

\* Step 3 on a form whose fields are found by their labels
Step3(t) == Step3With(t, {FilledByLabel})

\* Step 3 on a form where filling a field may fail
Step3Fields(t) == Step3With(t, FieldFills)

(***************************************************************************)
(* Step 4: deeplink acquisition.  multitransfer_step4.py holds two         *)
(* definitions of step4_wait_for_deeplink: "race" (network /confirm and    *)
(* console, lines 387-529) and "network" (wait for /confirm only, lines    *)
(* 749-991).                                                               *)
(***************************************************************************)

\* the /confirm response: whether the body parses as a JSON object, its
\* externalData.payload, and the body as text (None when it cannot be read)
ConfirmBody(json, payload, raw) == [json |-> json, payload |-> payload, raw |-> raw]

ConfirmBodies ==
    { ConfirmBody(TRUE,  Some(<<"https://qr.nspk.ru/A">>), Some(<<"noise", "https://qr.nspk.ru/A">>)),
      ConfirmBody(TRUE,  None,                              Some(<<"noise">>)),
      ConfirmBody(FALSE, None,                              Some(<<"noise", "(sbpqr://B),">>)),
      ConfirmBody(TRUE,  Some(<<"https://example.com/foo">>), Some(<<"https://example.com/foo">>)),
      ConfirmBody(TRUE,  Some(<<"qr.nspk.ru/C">>),          Some(<<"qr.nspk.ru/C">>)),
      ConfirmBody(FALSE, None,                              None) }

\* what the response listener delivers: None when no /confirm response comes in time
ConfirmResponses == {None} \cup {Some(b) : b \in ConfirmBodies}

\* the console messages of the tab, in order
ConsoleLogs ==
    { <<>>,
      << <<"noise">> >>,
      << <<"noise">>, <<"noise", "(sbpqr://B),">> >>,
      << <<"https://example.com/foo">>, <<"https://qr.nspk.ru/A">> >> }

\* bool(x) of an optional text: None and "" are falsy
Truthy(x) == x # None /\ x[1] # <<>>

\* _wait_for_nspk_payload
_wait_for_nspk_payload(resp) ==
    IF resp = None THEN None
    ELSE IF ~resp[1].json THEN None
    ELSE IF ~Truthy(resp[1].payload) THEN None
    ELSE LET ex     == _extract_deeplink_from_text(resp[1].payload)
             parsed == IF Truthy(ex) THEN ex ELSE resp[1].payload
         IN  IF Truthy(parsed) /\ HasKeyword(parsed[1]) THEN parsed ELSE None

\* _on_console over the messages: the first deeplink found is kept
RECURSIVE ConsoleDeeplink(_, _)
ConsoleDeeplink(msgs, n) ==
    IF n > Len(msgs) THEN None
    ELSE IF msgs[n] # <<>> /\ Truthy(_extract_deeplink_from_text(Some(msgs[n])))
    THEN _extract_deeplink_from_text(Some(msgs[n]))
    ELSE ConsoleDeeplink(msgs, n + 1)

Step4Result(db, hooks, exc, ret) == [db |-> db, hooks |-> hooks, exc |-> exc, ret |-> ret]

\* Step 4 reports its own failure: row to error, "No Terminals" webhook, raise
Step4SelfError(db, inv, error_msg) ==
    Step4Result(_update_local_invoice(db, inv, db[inv].invoice_id, None, "error", Some(error_msg)),
                <<_send_webhook(None, "No Terminals", Some(error_msg))>>,
                Some(error_msg), None)

\* a success that POSTs the webhook twice
Step4SuccessTwice(db, inv, deeplink) ==
    Step4Result(_update_local_invoice(db, inv, db[inv].invoice_id, deeplink, "created", None),
                <<_send_webhook(deeplink, "created", None), _send_webhook(deeplink, "created", None)>>,
                None, deeplink)

\* Step 4 succeeds: "created" webhook and row to created, return the deeplink
Step4Success(db, inv, deeplink) ==
    Step4Result(_update_local_invoice(db, inv, db[inv].invoice_id, deeplink, "created", None),
                <<_send_webhook(deeplink, "created", None)>>,
                None, deeplink)

\* an exception of a page wait leaves Step 4 as it is
Step4PageError(db, text) == Step4Result(db, <<>>, Some(Msg("", text, <<>>)), None)

\* the two tests in the other order: the console deeplink first
PickConsoleFirst(net, con) == IF Truthy(con) THEN con ELSE IF Truthy(net) THEN net ELSE None

\* if deeplink_from_network: ... ; if console_deeplink: ...
PickNetworkFirst(net, con) == IF Truthy(net) THEN net ELSE IF Truthy(con) THEN con ELSE None

\* the result of nspk_task as Step 4 sees it: asyncio.wait_for(nspk_task,
\* timeout=5) gives nothing when the task is not done in time
NetworkDeeplink(resp, in_time) == IF in_time THEN _wait_for_nspk_payload(resp) ELSE None

\* step4_wait_for_deeplink, lines 387-529
step4_race(db, inv, final_ok, page_ok, resp, in_time, console) ==
    IF ~final_ok
    THEN Step4SelfError(db, inv, Msg("[STEP4]", "final page with QR not reached", <<>>))
    ELSE IF ~page_ok
    THEN Step4PageError(db, "Page.wait_for_timeout failed")
    ELSE LET deeplink_from_network == NetworkDeeplink(resp, in_time)
             console_deeplink      == ConsoleDeeplink(console, 1)
             deeplink == PickNetworkFirst(deeplink_from_network, console_deeplink)
         IN  IF Truthy(deeplink)
             THEN Step4Success(db, inv, deeplink)
             ELSE Step4SelfError(db, inv,
                      Msg("[STEP4]", "no deeplink from /confirm nor console.log", <<>>))

\* the message of the missing-payload branch: it starts with a warning sign
NoPayloadMsg ==
    Msg("(warning sign)", "externalData.payload not found in the confirm response", <<>>)

UrlWaits == {"ok", "timeout", "error"}

\* step4_wait_for_deeplink, lines 749-991
step4_network(db, inv, resp, url_wait) ==
    IF resp = None
    THEN Step4SelfError(db, inv, Msg("[STEP4]", "confirm response timeout", <<>>))
    ELSE IF url_wait = "error"
    THEN Step4PageError(db, "Page.wait_for_url failed")
    ELSE LET raw_text    == resp[1].raw
             is_dict     == raw_text # None /\ resp[1].json
             from_data   == IF is_dict THEN resp[1].payload ELSE None
             payload_raw == IF ~Truthy(from_data) /\ Truthy(raw_text)
                            THEN _extract_deeplink_from_text(raw_text)
                            ELSE from_data
         IN  IF ~Truthy(payload_raw)
             THEN Step4SelfError(db, inv, NoPayloadMsg)
             ELSE LET ex       == _extract_deeplink_from_text(payload_raw)
                      deeplink == IF Truthy(ex) THEN ex ELSE payload_raw
                  IN  IF ~HasKeyword(deeplink[1])
                      THEN Step4SelfError(db, inv,
                               Msg("[STEP4]", "payload is not an NSPK/SBP deeplink", payload_raw[1]))
                      ELSE Step4Success(db, inv, deeplink)

\* the end of process_invoice after Step 4: return, or the except branch
Step4Finish(t, r) ==
    IF r.exc = None
    THEN /\ invoices' = r.db
         /\ task' = [task EXCEPT ![t].pc = "done", ![t].ret = r.ret,
                                 ![t].steps = Append(@, 4),
                                 ![t].sent = @ \o r.hooks]
    ELSE LET e   == r.exc[1]
             fin == _finalize_invoice_error_any_step(r.db, task[t].inv, e)
         IN  /\ invoices' = IF StartsWithStep4(e) THEN r.db ELSE fin.db
             /\ task' = [task EXCEPT ![t].pc = "done", ![t].exc = r.exc,
                                     ![t].steps = Append(@, 4),
                                     ![t].sent = IF StartsWithStep4(e)
                                                 THEN @ \o r.hooks
                                                 ELSE Append(@ \o r.hooks, fin.hook)]

\* nspk_task when the race variant is left; done: _wait_for_nspk_payload has
\* returned by then (for a run that reaches it, within the 5 s of wait_for).
\* No final screen: cancel() unless done.  An exception of a page wait
\* (page.wait_for_timeout in _wait_for_final_screen or after it) leaves the
\* function with no cancel().  Otherwise wait_for returns the result or
\* cancels the task on its timeout.
nspk_task_at_exit(final_ok, page_ok, done) ==
    IF done THEN "finished"
    ELSE IF ~final_ok THEN "cancelled"
    ELSE IF ~page_ok THEN "running"
    ELSE "cancelled"

\* hb_task when the network variant is left: the finally block cancels it
hb_task_at_exit == "cancelled"

Step4Race(t) ==
    /\ CanRun(t, "step4")
    /\ step4Variant = "race"
    /\ \E final_ok \in BOOLEAN, page_ok \in BOOLEAN, in_time \in BOOLEAN,
          resp \in ConfirmResponses, console \in ConsoleLogs :
        /\ Step4Finish(t, step4_race(invoices, task[t].inv, final_ok, page_ok, resp,
                                     in_time, console))
        /\ race' = [t |-> t, final_ok |-> final_ok, page_ok |-> page_ok,
                    net |-> IF final_ok /\ page_ok
                            THEN NetworkDeeplink(resp, in_time) ELSE None,
                    con |-> IF final_ok /\ page_ok
                            THEN ConsoleDeeplink(console, 1) ELSE None]
        /\ bg' = [t |-> t, variant |-> "race",
                  task |-> nspk_task_at_exit(final_ok, page_ok, in_time),
                  handler |-> nspk_task_at_exit(final_ok, page_ok, in_time) = "running"]
    /\ UNCHANGED <<step4Variant, loopVars, callbacks, callVars, proxyVars, extVars, tool, norm,
                   extract, fill>>

Step4Network(t) ==
    /\ CanRun(t, "step4")
    /\ step4Variant = "network"
    /\ \E resp \in ConfirmResponses, url_wait \in UrlWaits :
        Step4Finish(t, step4_network(invoices, task[t].inv, resp, url_wait))
    /\ bg' = [t |-> t, variant |-> "network", task |-> hb_task_at_exit, handler |-> FALSE]
    /\ UNCHANGED <<step4Variant, loopVars, callbacks, callVars, proxyVars, extVars, tool, norm,
                   extract, fill, race>>

(***************************************************************************)
(* The admin application: invoice creation and the deeplink callback.      *)
(***************************************************************************)

\* the invoice_id values the operator may type into the creation form
FormInvoiceIds == {100 + i : i \in 1..NumInvoices}

\* POST /admin/invoices/create: db.add(inv); db.commit() inside try/finally
\* only; the commit of a second row with the same invoice_id raises
\* IntegrityError (Invoice.invoice_id is unique), which leaves the handler
\* and is answered with 500
invoices_create ==
    /\ \E invoice_id \in FormInvoiceIds, form \in InvoiceForms :
        IF FindByExt(invoices, invoice_id) # 0
        THEN /\ invoices' = invoices
             /\ response' = 500
        ELSE /\ Len(invoices) < NumInvoices
             /\ invoices' = Append(invoices, [NewInvoice(Len(invoices) + 1, form)
                                                EXCEPT !.invoice_id = invoice_id])
             /\ response' = 302
    /\ UNCHANGED <<step4Variant, loopVars, task, callbacks, callVars, proxyVars,
                   failsSince, settings, prm, workers, unitVars>>

\* the statuses and deeplinks a callback payload may carry
CallbackStatuses == {"", "created", "error", "queued"}

CallbackDeeplinks == {<<>>, <<"https://qr.nspk.ru/CB">>}

\* the same lookup with the external id tried first
CallbackTargetExternalFirst(db, invoice_id, invoice_external_id) ==
    IF FindByExt(db, invoice_external_id) # 0 THEN FindByExt(db, invoice_external_id)
    ELSE FindById(db, invoice_id)

\* the row invoice_deeplink_callback updates: by Invoice.id, else by invoice_id
CallbackTarget(db, invoice_id, invoice_external_id) ==
    IF FindById(db, invoice_id) # 0 THEN FindById(db, invoice_id)
    ELSE FindByExt(db, invoice_external_id)

\* invoice.deeplink = payload.deeplink; invoice.status = payload.status or "created"
CallbackWrite(db, inv, deeplink, status) ==
    [db EXCEPT ![inv].deeplink = Some(deeplink),
               ![inv].status = IF status = "" THEN "created" ELSE status]

\* the invoice_external_id values of the rows
ExternalIds(db) == {db[i].invoice_id : i \in DOMAIN db}

\* InvoiceDeeplinkPayload: the fields the handler reads
Payload(invoice_id, invoice_external_id, deeplink, status) ==
    [invoice_id |-> invoice_id, invoice_external_id |-> invoice_external_id,
     deeplink |-> deeplink, status |-> status]

\* POST /callbacks/invoice/deeplink (404 and no write when no row is found)
invoice_deeplink_callback ==
    /\ Len(callbacks) < MaxCallbacks
    /\ \E invoice_id \in InvIds \cup {0}, invoice_external_id \in ExternalIds(invoices) \cup {0},
          deeplink \in CallbackDeeplinks, status \in CallbackStatuses :
        LET inv == CallbackTarget(invoices, invoice_id, invoice_external_id) IN
        /\ invoices' = IF inv = 0 THEN invoices
                       ELSE CallbackWrite(invoices, inv, deeplink, status)
        /\ response' = IF inv = 0 THEN 404 ELSE 200
        /\ callbacks' = Append(callbacks,
                               Payload(invoice_id, invoice_external_id, deeplink, status))
    /\ UNCHANGED <<step4Variant, loopVars, task, callVars, proxyVars,
                   failsSince, settings, prm, workers, unitVars>>

(***************************************************************************)
(* The agent with the admin application.                                   *)
(***************************************************************************)
IdleCallers == [c \in 1..NumCallers |-> "idle"]

NoSelection == [c \in 1..NumCallers |-> 0]

NoProxies == <<>>

NoReports == <<>>

\* no Setting row exists yet
NoSettings == [PRMONEY_LAST_ID |-> None]

\* the PrMoney worker between two cycles (time.sleep)
PrmIdle ==
    [pc |-> "sleep", polled |-> FALSE, data |-> <<>>, http_ok |-> FALSE, fetched |-> <<>>,
     last_id |-> 0, new_items |-> <<>>, max_id |-> 0, considered |-> <<>>]

\* _prmoney_proc = None, _agent_proc = None, no process spawned
NoWorkers ==
    [tracked |-> [w \in {"prmoney", "agent"} |-> None], alive |-> {}, spawned |-> 0,
     kind |-> <<>>, last |-> <<"", "", "">>]

\* no call of _normalize_date_for_multitransfer has been made
NormIdle == [pc |-> "idle", value |-> None, date |-> None, out |-> None, again |-> None]

\* no call of _extract_deeplink_from_text has been made outside Step 4
ExtractIdle == [pc |-> "idle", text |-> <<>>, tokens |-> None, table |-> None, out |-> None]

\* Step 4 has not been left yet
NoBackground == [t |-> 0, variant |-> "", task |-> "", handler |-> FALSE]

\* BrowserTool.__init__
NewTool == [_pw |-> None, _browser |-> None, _context |-> None, page |-> None,
            open |-> {}, starts |-> 0, last |-> "", tried |-> {}, raised |-> FALSE]

\* Step 3 has not run
NoFill == [t |-> 0, label |-> "", by_name |-> "", result |-> ""]

\* the race variant of Step 4 has not run
NoRace == [t |-> 0, final_ok |-> FALSE, page_ok |-> FALSE, net |-> None, con |-> None]

\* the units examined on their own are at rest
NoUnits ==
    /\ norm = NormIdle
    /\ extract = ExtractIdle
    /\ bg = NoBackground
    /\ tool = NewTool
    /\ fill = NoFill
    /\ race = NoRace

Init ==
    /\ invoices = <<>>
    /\ step4Variant \in {"race", "network"}
    /\ loopPc = "sleep"
    /\ tasks = {}
    /\ task = <<>>
    /\ found_new = FALSE
    /\ callbacks = <<>>
    /\ cpc = IdleCallers
    /\ sel = NoSelection
    /\ claimed = <<>>
    /\ proxies = NoProxies
    /\ now = 0
    /\ lastCfg = None
    /\ failsSince = NoReports
    /\ settings = NoSettings
    /\ prm = PrmIdle
    /\ response = 0
    /\ workers = NoWorkers
    /\ NoUnits

Next ==
    \/ invoices_create
    \/ invoice_deeplink_callback
    \/ LoopReap
    \/ LoopDequeue
    \/ LoopSleep
    \/ \E t \in TaskIds : OpenPage(t)
    \/ \E t \in TaskIds : Goto(t)
    \/ \E t \in TaskIds : Step1(t)
    \/ \E t \in TaskIds : Step2(t)
    \/ \E t \in TaskIds : Step3(t)
    \/ \E t \in TaskIds : Step4Race(t)
    \/ \E t \in TaskIds : Step4Network(t)

Spec == Init /\ [][Next]_vars

(***************************************************************************)
(* The main loop with a full queue and the browser context closed: every   *)
(* context.new_page() raises.                                              *)
(***************************************************************************)
OpenPageDown(t) == OpenPageWith(t, {FALSE})

InitLoop ==
    /\ invoices = SeededTable(LoopInvoices)
    /\ step4Variant = "race"
    /\ loopPc = "sleep"
    /\ tasks = {}
    /\ task = <<>>
    /\ found_new = FALSE
    /\ callbacks = <<>>
    /\ cpc = IdleCallers
    /\ sel = NoSelection
    /\ claimed = <<>>
    /\ proxies = NoProxies
    /\ now = 0
    /\ lastCfg = None
    /\ failsSince = NoReports
    /\ settings = NoSettings
    /\ prm = PrmIdle
    /\ response = 0
    /\ workers = NoWorkers
    /\ NoUnits

NextLoop ==
    \/ LoopReap
    \/ LoopDequeue
    \/ LoopSleep
    \/ \E t \in TaskIds : OpenPageDown(t)

SpecLoop == InitLoop /\ [][NextLoop]_vars

(***************************************************************************)
(* get_next_invoice called by several callers (agent processes) at once.   *)
(* The SELECT and the UPDATE ... WHERE id = ? of one call are two database *)
(* statements; statements of other callers may run between them.           *)
(***************************************************************************)
Callers == 1..NumCallers

\* the SELECT of get_next_invoice (nothing to do when it returns no row)
CallerSelect(c) ==
    /\ cpc[c] = "idle"
    /\ FirstQueued(invoices) # 0
    /\ sel' = [sel EXCEPT ![c] = FirstQueued(invoices)]
    /\ cpc' = [cpc EXCEPT ![c] = "selected"]
    /\ UNCHANGED <<invoices, step4Variant, loopVars, task, callbacks, claimed, proxyVars, extVars, unitVars>>

\* inv.status = "processing"; db.commit(); db.refresh(inv); return inv
CallerCommit(c) ==
    /\ cpc[c] = "selected"
    /\ invoices' = MarkProcessing(invoices, sel[c])
    /\ claimed' = Append(claimed, [caller |-> c, inv |-> sel[c]])
    /\ cpc' = [cpc EXCEPT ![c] = "idle"]
    /\ sel' = [sel EXCEPT ![c] = 0]
    /\ UNCHANGED <<step4Variant, loopVars, task, callbacks, proxyVars, extVars, unitVars>>

InitAdmission ==
    /\ invoices = SeededTable(AdmInvoices)
    /\ step4Variant = "race"
    /\ loopPc = "sleep"
    /\ tasks = {}
    /\ task = <<>>
    /\ found_new = FALSE
    /\ callbacks = <<>>
    /\ cpc = IdleCallers
    /\ sel = NoSelection
    /\ claimed = <<>>
    /\ proxies = NoProxies
    /\ now = 0
    /\ lastCfg = None
    /\ failsSince = NoReports
    /\ settings = NoSettings
    /\ prm = PrmIdle
    /\ response = 0
    /\ workers = NoWorkers
    /\ NoUnits

NextAdmission ==
    \/ \E c \in Callers : CallerSelect(c)
    \/ \E c \in Callers : CallerCommit(c)

SpecAdmission == InitAdmission /\ [][NextAdmission]_vars

(***************************************************************************)
(* The proxy pool: proxy_manager, the proxy pages of the admin application *)
(* and the browser launch of agent.open_context.                           *)
(***************************************************************************)
ProxyIds == DOMAIN proxies

\* Proxy(...) as admin_app.add_proxy inserts it; usable: host and a port are filled in
NewProxy(is_active, usable) ==
    [is_active |-> is_active, fail_count |-> 0, last_used_at |-> None, usable |-> usable]

\* .where(Proxy.is_active.is_(True))
ActiveProxies(db) == {i \in DOMAIN db : db[i].is_active}

\* the same order with the rows never used put last
OrderedBeforeNullsLast(db, i, j) ==
    LET a == db[i]
        b == db[j]
    IN  \/ a.fail_count < b.fail_count
        \/ /\ a.fail_count = b.fail_count
           /\ \/ a.last_used_at # None /\ b.last_used_at = None
              \/ /\ a.last_used_at # None /\ b.last_used_at # None
                 /\ a.last_used_at[1] < b.last_used_at[1]
              \/ /\ \/ a.last_used_at = None /\ b.last_used_at = None
                    \/ /\ a.last_used_at # None /\ b.last_used_at # None
                       /\ a.last_used_at[1] = b.last_used_at[1]
                 /\ i < j

\* row i comes before row j under .order_by(fail_count.asc(),
\* last_used_at.is_(None).desc(), last_used_at.asc(), id.asc())
OrderedBefore(db, i, j) ==
    LET a == db[i]
        b == db[j]
    IN  \/ a.fail_count < b.fail_count
        \/ /\ a.fail_count = b.fail_count
           /\ \/ a.last_used_at = None /\ b.last_used_at # None
              \/ /\ a.last_used_at # None /\ b.last_used_at # None
                 /\ a.last_used_at[1] < b.last_used_at[1]
              \/ /\ \/ a.last_used_at = None /\ b.last_used_at = None
                    \/ /\ a.last_used_at # None /\ b.last_used_at # None
                       /\ a.last_used_at[1] = b.last_used_at[1]
                 /\ i < j

\* .limit(1) ... .first(): 0 when there is no active proxy
FirstProxy(db) ==
    IF ActiveProxies(db) = {} THEN 0
    ELSE CHOOSE i \in ActiveProxies(db) :
             \A j \in ActiveProxies(db) \ {i} : OrderedBefore(db, i, j)

\* proxy_manager.get_next_proxy_for_launch: the id of the returned config (None
\* when nothing is returned) and the table after the commit
get_next_proxy_for_launch(db, utcnow) ==
    LET proxy == FirstProxy(db) IN
    IF proxy = 0 THEN [cfg |-> None, db |-> db]
    ELSE IF ~db[proxy].usable THEN [cfg |-> None, db |-> db]
    ELSE [cfg |-> Some(proxy),
          db  |-> [db EXCEPT ![proxy].last_used_at = Some(utcnow)]]

\* the same report with the proxy switched off one failure later
mark_proxy_fail_after_four(db, proxy_id, utcnow) ==
    IF proxy_id \notin DOMAIN db THEN db
    ELSE [db EXCEPT ![proxy_id].fail_count = @ + 1,
                    ![proxy_id].is_active = IF db[proxy_id].fail_count + 1 >= 4
                                            THEN FALSE ELSE @,
                    ![proxy_id].last_used_at = Some(utcnow)]

\* proxy_manager.mark_proxy_fail
mark_proxy_fail(db, proxy_id, utcnow) ==
    IF proxy_id \notin DOMAIN db THEN db
    ELSE [db EXCEPT ![proxy_id].fail_count = @ + 1,
                    ![proxy_id].is_active = IF db[proxy_id].fail_count + 1 >= 3
                                            THEN FALSE ELSE @,
                    ![proxy_id].last_used_at = Some(utcnow)]

\* proxy_manager.mark_proxy_success
mark_proxy_success(db, proxy_id, utcnow) ==
    IF proxy_id \notin DOMAIN db THEN db
    ELSE [db EXCEPT ![proxy_id].fail_count = 0,
                    ![proxy_id].is_active = TRUE,
                    ![proxy_id].last_used_at = Some(utcnow)]

\* POST /admin/proxies/add
add_proxy ==
    /\ Len(proxies) < NumProxies
    /\ \E is_active \in BOOLEAN, usable \in BOOLEAN :
        proxies' = Append(proxies, NewProxy(is_active, usable))
    /\ failsSince' = Append(failsSince, 0)
    /\ UNCHANGED <<invoices, step4Variant, loopVars, task, callbacks, callVars, now, lastCfg,
                   settings, prm, response, workers, unitVars>>

\* POST /admin/proxies/{proxy_id}/toggle
toggle_proxy(proxy_id) ==
    /\ proxy_id \in ProxyIds
    /\ proxies' = [proxies EXCEPT ![proxy_id].is_active = ~@]
    /\ UNCHANGED <<invoices, step4Variant, loopVars, task, callbacks, callVars, now, lastCfg, extVars, unitVars>>

\* python agent.py (or workers.start_agent_worker) after the process ended
AgentStart ==
    /\ loopPc = "crashed" \/ (loopPc = "sleep" /\ tasks = {})
    /\ loopPc' = "startup"
    /\ UNCHANGED <<invoices, step4Variant, tasks, found_new, task, callbacks, callVars,
                   proxyVars, extVars, unitVars>>

\* open_context, up to the launch: proxy_cfg = get_next_proxy_for_launch()
OpenContextSelect ==
    /\ loopPc = "startup"
    /\ lastCfg' = get_next_proxy_for_launch(proxies, now).cfg
    /\ proxies' = get_next_proxy_for_launch(proxies, now).db
    /\ loopPc' = "launch"
    /\ UNCHANGED <<invoices, step4Variant, tasks, found_new, task, callbacks, callVars, now,
                   extVars, unitVars>>

\* open_context: chromium.launch raised; mark_proxy_fail(proxy_cfg.id) when a
\* proxy was used, then the bare raise, which nothing in run_agent catches
OpenContextLaunchFails ==
    /\ loopPc = "launch"
    /\ lastCfg # None => proxies[lastCfg[1]].fail_count < MaxFail
    /\ proxies' = IF lastCfg # None THEN mark_proxy_fail(proxies, lastCfg[1], now)
                  ELSE proxies
    /\ failsSince' = IF lastCfg # None /\ lastCfg[1] \in DOMAIN failsSince
                     THEN [failsSince EXCEPT ![lastCfg[1]] = @ + 1]
                     ELSE failsSince
    /\ lastCfg' = None
    /\ loopPc' = "crashed"
    /\ UNCHANGED <<invoices, step4Variant, tasks, found_new, task, callbacks, callVars, now,
                   settings, prm, response, workers, unitVars>>

\* open_context: the browser is up; mark_proxy_success(proxy_cfg.id) when a
\* proxy was used; run_agent goes on to its while-True loop
OpenContextLaunched ==
    /\ loopPc = "launch"
    /\ proxies' = IF lastCfg # None THEN mark_proxy_success(proxies, lastCfg[1], now)
                  ELSE proxies
    /\ failsSince' = IF lastCfg # None /\ lastCfg[1] \in DOMAIN failsSince
                     THEN [failsSince EXCEPT ![lastCfg[1]] = 0]
                     ELSE failsSince
    /\ lastCfg' = None
    /\ loopPc' = "sleep"
    /\ UNCHANGED <<invoices, step4Variant, tasks, found_new, task, callbacks, callVars, now,
                   settings, prm, response, workers, unitVars>>

\* time passes
Tick ==
    /\ now < MaxClock
    /\ now' = now + 1
    /\ UNCHANGED <<invoices, step4Variant, loopVars, task, callbacks, callVars, proxies, lastCfg, extVars, unitVars>>

InitProxy ==
    /\ invoices = <<>>
    /\ step4Variant = "race"
    /\ loopPc = "startup"
    /\ tasks = {}
    /\ task = <<>>
    /\ found_new = FALSE
    /\ callbacks = <<>>
    /\ cpc = IdleCallers
    /\ sel = NoSelection
    /\ claimed = <<>>
    /\ proxies = NoProxies
    /\ now = 0
    /\ lastCfg = None
    /\ failsSince = NoReports
    /\ settings = NoSettings
    /\ prm = PrmIdle
    /\ response = 0
    /\ workers = NoWorkers
    /\ NoUnits

NextProxy ==
    \/ AgentStart
    \/ add_proxy
    \/ \E proxy_id \in ProxyIds : toggle_proxy(proxy_id)
    \/ OpenContextSelect
    \/ OpenContextLaunchFails
    \/ OpenContextLaunched
    \/ Tick

SpecProxy == InitProxy /\ [][NextProxy]_vars

(***************************************************************************)
(* PrMoney: the payload of the aggregator, prmoney_invoice and             *)
(* prmoney_fetcher.  A JSON value carries its type; the strings of the     *)
(* model's alphabet are listed with what str.strip().lower() and int()     *)
(* make of them.  Decimal numerals such as str(ext_id) are represented by  *)
(* their number.                                                           *)
(***************************************************************************)
\* JSON values of the "status" key; Absent: the key is missing
IntValue(n) == [type |-> "int", int |-> n, str |-> ""]
StrValue(s) == [type |-> "str", int |-> 0, str |-> s]
BoolValue(b) == [type |-> "bool", int |-> IF b THEN 1 ELSE 0, str |-> ""]
FloatZero == [type |-> "float", int |-> 0, str |-> ""]
Null == [type |-> "null", int |-> 0, str |-> ""]
Absent == [type |-> "absent", int |-> 0, str |-> ""]

StatusStrings ==
    {"0", " 0 ", "queued", "Queued", "PENDING", " Waiting ", "waiting", "pending",
     "done", "", "1", "00", "queue", "none"}

StatusValues ==
    {IntValue(n) : n \in {0, 1, 5, -1}} \cup {StrValue(s) : s \in StatusStrings}
    \cup {BoolValue(FALSE), BoolValue(TRUE), FloatZero, Null, Absent}

\* status.strip().lower()
StripLower(s) ==
    CASE s = " 0 " -> "0"
      [] s = "Queued" -> "queued"
      [] s = "PENDING" -> "pending"
      [] s = " Waiting " -> "waiting"
      [] OTHER -> s

\* isinstance(status, int): bool is a subclass of int
IsInstanceInt(v) == v.type \in {"int", "bool"}

\* the same test without strip() and lower()
_is_pending_status_verbatim(status) ==
    IF IsInstanceInt(status) THEN status.int = 0
    ELSE IF status.type = "str"
         THEN status.str \in {"0", "queued", "pending", "waiting"}
         ELSE FALSE

\* prmoney_fetcher._is_pending_status, on the value of raw.get("status")
_is_pending_status(status) ==
    IF IsInstanceInt(status) THEN status.int = 0
    ELSE IF status.type = "str"
         THEN StripLower(status.str) \in {"0", "queued", "pending", "waiting"}
         ELSE FALSE

\* int(raw_status): None when it raises TypeError or ValueError
IntOf(v) ==
    CASE v.type \in {"int", "bool", "float"} -> Some(v.int)
      [] v.type = "str" /\ v.str \in {"0", " 0 ", "00"} -> Some(0)
      [] v.type = "str" /\ v.str = "1" -> Some(1)
      [] OTHER -> None

\* str(raw_status) for the values int() rejects
StrOf(v) == IF v.type = "str" THEN v.str ELSE "none"

\* prmoney_invoice.normalize_status
normalize_status(raw_status) ==
    IF IntOf(raw_status) # None THEN IntOf(raw_status)[1]
    ELSE IF StripLower(StrOf(raw_status)) \in {"0", "queued", "pending", "waiting"}
         THEN 0 ELSE -1

\* the "card_info" key: missing, a JSON string that parses to an object, a
\* string that does not parse ("bad"), a string that parses to a list
\* ("json_list"), an object ("dict"), or a value of another type ("other")
NoCardInfo == [kind |-> "absent", card_number |-> "", holder |-> ""]
CardInfo(kind, card_number, holder) ==
    [kind |-> kind, card_number |-> card_number, holder |-> holder]

\* prmoney_invoice.parse_card_info
parse_card_info(raw) ==
    IF raw.kind \in {"json", "dict"}
    THEN [card_number |-> raw.card_number, holder |-> raw.holder]
    ELSE [card_number |-> "", holder |-> ""]

\* float(raw_amount) of  item.get("amount", "0") or 0 : None when it raises
FloatOf(raw_amount) ==
    CASE raw_amount = "100" -> Some(100)
      [] raw_amount \in {"", "0"} -> Some(0)
      [] OTHER -> None

\* one object of the JSON array; id = None: the key is missing or not a number
Item(id, status, amount, card_number, holder, card_info) ==
    [id |-> id, status |-> status, amount |-> amount,
     card_number |-> card_number, holder |-> holder, card_info |-> card_info]

\* prmoney_invoice.invoice_from_prmoney_payload: None when the try block raises
invoice_from_prmoney_payload(item) ==
    IF \/ item.id = None
       \/ FloatOf(item.amount) = None
       \/ /\ item.card_number = "" \/ item.holder = ""
          /\ item.card_info.kind = "json_list"     \* data.get: AttributeError
    THEN None
    ELSE LET raw_status == IF item.status.type = "absent" THEN IntValue(0) ELSE item.status
             parsed == parse_card_info(item.card_info)
             use_info == (item.card_number = "" \/ item.holder = "")
                         /\ item.card_info.kind # "absent"
             number == IF item.card_number = "" /\ use_info
                       THEN parsed.card_number ELSE item.card_number
             holder == IF item.holder = "" /\ use_info
                       THEN parsed.holder ELSE item.holder
         IN  Some([id          |-> item.id[1],
                   invoice_id  |-> item.id[1],
                   amount      |-> FloatOf(item.amount)[1],
                   status      |-> normalize_status(raw_status),
                   card_number |-> IF number = "" THEN "UNKNOWN" ELSE number,
                   holder      |-> IF holder = "" THEN "Unknown" ELSE holder])

\* the loop of prmoney_fetcher.fetch_pending_invoices over positions n.. of data
RECURSIVE FetchFrom(_, _)
FetchFrom(data, n) ==
    IF n > Len(data) THEN <<>>
    ELSE IF ~_is_pending_status(data[n].status) THEN FetchFrom(data, n + 1)
    ELSE IF invoice_from_prmoney_payload(data[n]) = None THEN FetchFrom(data, n + 1)
    ELSE <<invoice_from_prmoney_payload(data[n])[1]>> \o FetchFrom(data, n + 1)

\* prmoney_fetcher.fetch_pending_invoices: http_ok = FALSE when the GET, the
\* HTTP status or the JSON decoding fails, or the JSON value is not a list
fetch_pending_invoices(http_ok, data) ==
    IF ~http_ok THEN <<>> ELSE FetchFrom(data, 1)

(***************************************************************************)
(* PrMoney: prmoney_worker, the DB-watermark worker.  It is a process of   *)
(* its own; the admin application may touch the invoice table between two *)
(* of its database statements.                                             *)
(***************************************************************************)
\* str(n) as the sequence of decimal digits of n >= 0
RECURSIVE StrOfInt(_)
StrOfInt(n) == IF n < 10 THEN <<n>> ELSE StrOfInt(n \div 10) \o <<n % 10>>

\* int(s) for a text s: None when it raises ValueError
RECURSIVE IntOfStr(_)
IntOfStr(s) ==
    IF s = <<>> \/ \E k \in 1..Len(s) : s[k] \notin 0..9 THEN None
    ELSE IF Len(s) = 1 THEN Some(s[1])
    ELSE Some(10 * IntOfStr(SubSeq(s, 1, Len(s) - 1))[1] + s[Len(s)])

\* prmoney_worker._get_setting(db, PRMONEY_LAST_ID_KEY)
_get_setting(st) == st.PRMONEY_LAST_ID

\* prmoney_worker._set_setting(db, PRMONEY_LAST_ID_KEY, value)
_set_setting(st, value) == [st EXCEPT !.PRMONEY_LAST_ID = Some(value)]

\* last_id of _poll_prmoney_once: int(_get_setting(...) or "0"), 0 on ValueError
LastId(st) ==
    LET last_id_str == IF _get_setting(st) = None \/ _get_setting(st) = Some(<<>>)
                       THEN <<0>> ELSE _get_setting(st)[1]
    IN  IF IntOfStr(last_id_str) = None THEN 0 ELSE IntOfStr(last_id_str)[1]

\* getattr(obj, name, None)
GetAttr(obj, name) == IF name \in DOMAIN obj THEN Some(obj[name]) ELSE None

\* prmoney_worker._parse_card_info, on getattr(pr_inv, "card_info", None)
_parse_card_info(card_info_raw) ==
    IF card_info_raw = None THEN [card_number |-> None, holder |-> None]
    ELSE IF card_info_raw[1].kind = "json"
         THEN [card_number |-> Some(card_info_raw[1].card_number),
               holder      |-> Some(card_info_raw[1].holder)]
         ELSE [card_number |-> None, holder |-> None]

\* prmoney_worker._split_holder: (last_name, first_name)
_split_holder(holder) ==
    IF holder = None \/ holder = Some("") THEN [last_name |-> "", first_name |-> ""]
    ELSE CASE holder[1] = "Xujanazarov Islom" ->
                  [last_name |-> "Xujanazarov", first_name |-> "Islom"]
           [] OTHER -> [last_name |-> holder[1], first_name |-> ""]

\* x or default, for an optional text
OrText(x, default) == IF x = None \/ x = Some("") THEN default ELSE x[1]

\* the Invoice(...) of prmoney_worker._create_invoice_from_prmoney
PrmoneyRow(pr_inv) ==
    LET parsed == _parse_card_info(GetAttr(pr_inv, "card_info"))
        holder == parsed.holder
        names  == _split_holder(holder)
        recipient_country == OrText(GetAttr(pr_inv, "country"), "Uzbekistan")
        recipient_bank == IF GetAttr(pr_inv, "bank") = None THEN <<"UZUM", "Bank">>
                          ELSE GetAttr(pr_inv, "bank")[1]
        recipient_card_number == OrText(parsed.card_number, "UNKNOWN")
        recipient_first_name == IF names.first_name # "" THEN names.first_name
                                ELSE OrText(holder, "Unknown")
    IN  [invoice_id            |-> pr_inv.id,
         amount                |-> pr_inv.amount,
         recipient_bank        |-> recipient_bank,
         status                |-> "queued",
         deeplink              |-> None,
         error_message         |-> None,
         recipient_card_number |-> recipient_card_number,
         recipient_name        |-> IF holder # None /\ holder # Some("") THEN holder[1]
                                   ELSE recipient_first_name,
         recipient_requisites  |-> [card    |-> recipient_card_number,
                                    holder  |-> OrText(holder, "Unknown"),
                                    bank    |-> recipient_bank,
                                    country |-> recipient_country]]

\* the same filter with the watermark itself let through
NewItemsFromWatermark(fetched, last_id) ==
    SelectSeq(fetched, LAMBDA inv : inv.status = 0 /\ inv.id >= last_id)

\* new_items of _poll_prmoney_once: status == 0 and id > last_id, in list order
NewItems(fetched, last_id) ==
    SelectSeq(fetched, LAMBDA inv : inv.status = 0 /\ inv.id > last_id)

\* new_items.sort(key=lambda x: x.id): a stable sort by insertion
RECURSIVE InsertById(_, _)
InsertById(sorted, inv) ==
    IF sorted = <<>> THEN <<inv>>
    ELSE IF inv.id < Head(sorted).id THEN <<inv>> \o sorted
    ELSE <<Head(sorted)>> \o InsertById(Tail(sorted), inv)

RECURSIVE SortById(_)
SortById(items) ==
    IF items = <<>> THEN <<>>
    ELSE InsertById(SortById(SubSeq(items, 1, Len(items) - 1)), items[Len(items)])

\* the objects the aggregator serves in SpecPrmoney
PrmItems ==
    { Item(Some(98), IntValue(0), "100", "9860046602662507", "Xujanazarov Islom", NoCardInfo),
      Item(Some(100), StrValue("0"), "100", "", "",
           CardInfo("json", "9860046602662507", "Xujanazarov Islom")),
      Item(Some(101), StrValue("Queued"), "100", "", "", NoCardInfo),
      Item(Some(105), IntValue(0), "", "9860046602662507", "Islom", NoCardInfo),
      Item(Some(105), IntValue(5), "100", "9860046602662507", "Islom", NoCardInfo) }

\* the arrays of at most n objects
SeqsUpTo(S, n) == UNION {[1..k -> S] : k \in 0..n}

\* ids 98, 101 and 105 in one array, in the order served
ExamplePayload ==
    << Item(Some(98), IntValue(0), "100", "9860046602662507", "Xujanazarov Islom", NoCardInfo),
       Item(Some(105), IntValue(0), "", "9860046602662507", "Islom", NoCardInfo),
       Item(Some(101), StrValue("Queued"), "100", "", "", NoCardInfo) >>

Payloads == SeqsUpTo(PrmItems, MaxFeed) \cup {ExamplePayload}

\* the aggregator changes what it serves
Publish ==
    /\ prm.pc = "sleep"
    /\ \E data \in Payloads \ {prm.data} : prm' = [prm EXCEPT !.data = data]
    /\ UNCHANGED <<invoices, step4Variant, loopVars, task, callbacks, callVars, proxyVars,
                   failsSince, settings, response, workers, unitVars>>

\* _poll_prmoney_once up to the loop over new_items: the watermark is read,
\* the array fetched, filtered and sorted; the function returns when the fetch
\* gave nothing or nothing is new
PrmPollBegin ==
    /\ prm.pc = "sleep"
    /\ \E http_ok \in BOOLEAN :
        LET last_id == LastId(settings)
            fetched == fetch_pending_invoices(http_ok, prm.data)
            new_items == SortById(NewItems(fetched, last_id))
        IN  prm' = [prm EXCEPT !.polled = TRUE,
                               !.http_ok = http_ok,
                               !.fetched = fetched,
                               !.last_id = last_id,
                               !.new_items = new_items,
                               !.max_id = last_id,
                               !.considered = <<>>,
                               !.pc = IF new_items = <<>> THEN "sleep" ELSE "check"]
    /\ UNCHANGED <<invoices, step4Variant, loopVars, task, callbacks, callVars, proxyVars,
                   failsSince, settings, response, workers, unitVars>>

\* the loop body after _create_invoice_from_prmoney returned: max_id, next item
PrmAdvance(p) ==
    [p EXCEPT !.max_id = IF Head(p.new_items).id > p.max_id
                         THEN Head(p.new_items).id ELSE p.max_id,
              !.new_items = Tail(p.new_items),
              !.considered = Append(p.considered, Head(p.new_items).id),
              !.pc = IF Tail(p.new_items) = <<>> THEN "finish" ELSE "check"]

\* _create_invoice_from_prmoney: the duplicate pre-check by invoice_id
PrmPreCheck ==
    /\ prm.pc = "check"
    /\ prm' = IF FindByExt(invoices, Head(prm.new_items).id) # 0
              THEN PrmAdvance(prm)
              ELSE [prm EXCEPT !.pc = "commit"]
    /\ UNCHANGED <<invoices, step4Variant, loopVars, task, callbacks, callVars, proxyVars,
                   failsSince, settings, response, workers, unitVars>>

\* _create_invoice_from_prmoney: db.add(inv); db.commit(); a row with the same
\* invoice_id inserted since the pre-check makes the commit raise
\* IntegrityError, which is caught and rolled back
PrmCommit ==
    /\ prm.pc = "commit"
    /\ invoices' = IF FindByExt(invoices, Head(prm.new_items).id) # 0
                   THEN invoices
                   ELSE Append(invoices, PrmoneyRow(Head(prm.new_items)))
    /\ prm' = PrmAdvance(prm)
    /\ UNCHANGED <<step4Variant, loopVars, task, callbacks, callVars, proxyVars,
                   failsSince, settings, response, workers, unitVars>>

\* _poll_prmoney_once after the loop: the watermark is persisted when it grew;
\* run_prmoney_worker then sleeps
PrmFinish ==
    /\ prm.pc = "finish"
    /\ settings' = IF prm.max_id > prm.last_id
                   THEN _set_setting(settings, StrOfInt(prm.max_id))
                   ELSE settings
    /\ prm' = [prm EXCEPT !.pc = "sleep"]
    /\ UNCHANGED <<invoices, step4Variant, loopVars, task, callbacks, callVars, proxyVars,
                   failsSince, response, workers, unitVars>>

InitPrmoney ==
    /\ invoices = <<>>
    /\ step4Variant = "race"
    /\ loopPc = "sleep"
    /\ tasks = {}
    /\ task = <<>>
    /\ found_new = FALSE
    /\ callbacks = <<>>
    /\ cpc = IdleCallers
    /\ sel = NoSelection
    /\ claimed = <<>>
    /\ proxies = NoProxies
    /\ now = 0
    /\ lastCfg = None
    /\ failsSince = NoReports
    /\ settings = NoSettings
    /\ prm = PrmIdle
    /\ response = 0
    /\ workers = NoWorkers
    /\ NoUnits

NextPrmoney ==
    \/ Publish
    \/ PrmPollBegin
    \/ PrmPreCheck
    \/ PrmCommit
    \/ PrmFinish
    \/ invoices_create

SpecPrmoney == InitPrmoney /\ [][NextPrmoney]_vars

(***************************************************************************)
(* fetch_pending_invoices on one array: the worker polls an aggregator     *)
(* that keeps serving the array drawn at the start.                        *)
(***************************************************************************)
FetchItems ==
    { Item(id, status, amount, "", "", card_info) :
        id \in {Some(7), None}, status \in StatusValues, amount \in {"100", "abc"},
        card_info \in {NoCardInfo, CardInfo("json_list", "", "")} }

FetchPayloads == SeqsUpTo(FetchItems, MaxFetch)

InitFetch ==
    /\ invoices = <<>>
    /\ step4Variant = "race"
    /\ loopPc = "sleep"
    /\ tasks = {}
    /\ task = <<>>
    /\ found_new = FALSE
    /\ callbacks = <<>>
    /\ cpc = IdleCallers
    /\ sel = NoSelection
    /\ claimed = <<>>
    /\ proxies = NoProxies
    /\ now = 0
    /\ lastCfg = None
    /\ failsSince = NoReports
    /\ settings = NoSettings
    /\ \E data \in FetchPayloads : prm = [PrmIdle EXCEPT !.data = data]
    /\ response = 0
    /\ workers = NoWorkers
    /\ NoUnits

NextFetch ==
    \/ PrmPollBegin
    \/ PrmPreCheck
    \/ PrmCommit
    \/ PrmFinish

SpecFetch == InitFetch /\ [][NextFetch]_vars

(***************************************************************************)
(* workers.py: the registry of the two worker processes kept by the        *)
(* process that imports it.  workers.kind[pid] is the worker the process   *)
(* pid was spawned for; workers.last is the last call made: its name, the  *)
(* worker and whether it returned at its first test.                       *)
(***************************************************************************)
WorkerNames == {"prmoney", "agent"}

\* start_X with the liveness test left out
AlreadyRunningNever(ws, w) == FALSE

\* _X_proc is not None and _X_proc.is_alive(), the test of start_X
AlreadyRunning(ws, w) == ws.tracked[w] # None /\ ws.tracked[w][1] \in ws.alive

\* is_prmoney_worker_alive, is_agent_worker_alive
is_worker_alive(ws, w) == ws.tracked[w] # None /\ ws.tracked[w][1] \in ws.alive

\* get_workers_status
get_workers_status(ws) ==
    [w \in WorkerNames |-> IF is_worker_alive(ws, w) THEN "running" ELSE "stopped"]

\* start_prmoney_worker, start_agent_worker
StartWorker(w) ==
    /\ workers' =
         IF AlreadyRunning(workers, w)
         THEN [workers EXCEPT !.last = <<"start", w, "noop">>]
         ELSE [workers EXCEPT !.tracked[w] = Some(workers.spawned + 1),
                              !.alive = @ \cup {workers.spawned + 1},
                              !.spawned = @ + 1,
                              !.kind = Append(@, w),
                              !.last = <<"start", w, "spawned">>]
    /\ AlreadyRunning(workers, w) \/ workers.spawned < MaxSpawn
    /\ UNCHANGED <<invoices, step4Variant, loopVars, task, callbacks, callVars, proxyVars,
                   failsSince, settings, prm, response, unitVars>>

start_prmoney_worker == StartWorker("prmoney")

start_agent_worker == StartWorker("agent")

\* stop_prmoney_worker, stop_agent_worker: terminate() and join(timeout=5) when
\* the process is alive; it may still be alive when the join times out
StopWorker(w) ==
    /\ \E exited \in BOOLEAN :
        workers' =
          IF workers.tracked[w] = None
          THEN [workers EXCEPT !.last = <<"stop", w, "noop">>]
          ELSE [workers EXCEPT !.tracked[w] = None,
                               !.alive = IF exited THEN @ \ {workers.tracked[w][1]} ELSE @,
                               !.last = <<"stop", w, "stopped">>]
    /\ UNCHANGED <<invoices, step4Variant, loopVars, task, callbacks, callVars, proxyVars,
                   failsSince, settings, prm, response, unitVars>>

stop_prmoney_worker == StopWorker("prmoney")

stop_agent_worker == StopWorker("agent")

\* a worker process ends: its entry function returned, or it was killed
WorkerExits ==
    /\ \E pid \in workers.alive :
        workers' = [workers EXCEPT !.alive = @ \ {pid}, !.last = <<"exit", "", "">>]
    /\ UNCHANGED <<invoices, step4Variant, loopVars, task, callbacks, callVars, proxyVars,
                   failsSince, settings, prm, response, unitVars>>

InitWorkers ==
    /\ invoices = <<>>
    /\ step4Variant = "race"
    /\ loopPc = "sleep"
    /\ tasks = {}
    /\ task = <<>>
    /\ found_new = FALSE
    /\ callbacks = <<>>
    /\ cpc = IdleCallers
    /\ sel = NoSelection
    /\ claimed = <<>>
    /\ proxies = NoProxies
    /\ now = 0
    /\ lastCfg = None
    /\ failsSince = NoReports
    /\ settings = NoSettings
    /\ prm = PrmIdle
    /\ response = 0
    /\ workers = NoWorkers
    /\ NoUnits

NextWorkers ==
    \/ start_prmoney_worker
    \/ start_agent_worker
    \/ stop_prmoney_worker
    \/ stop_agent_worker
    \/ WorkerExits

SpecWorkers == InitWorkers /\ [][NextWorkers]_vars

(***************************************************************************)
(* The deeplink callback on a table of several invoices.                   *)
(***************************************************************************)
InitCallback ==
    /\ invoices = SeededTable(CbInvoices)
    /\ step4Variant = "race"
    /\ loopPc = "sleep"
    /\ tasks = {}
    /\ task = <<>>
    /\ found_new = FALSE
    /\ callbacks = <<>>
    /\ cpc = IdleCallers
    /\ sel = NoSelection
    /\ claimed = <<>>
    /\ proxies = NoProxies
    /\ now = 0
    /\ lastCfg = None
    /\ failsSince = NoReports
    /\ settings = NoSettings
    /\ prm = PrmIdle
    /\ response = 0
    /\ workers = NoWorkers
    /\ NoUnits

NextCallback == invoice_deeplink_callback

SpecCallback == InitCallback /\ [][NextCallback]_vars

(***************************************************************************)
(* The two loops on a database whose statements may fail (locked file,     *)
(* lost connection): the SQLAlchemy call raises.                           *)
(***************************************************************************)
\* run_agent: get_next_invoice() raises; the call is in no try block, the
\* exception leaves run_agent and asyncio.run, the process ends
LoopDequeueFails ==
    /\ loopPc = "dequeue"
    /\ HasFreeSlot(Cardinality(tasks))
    /\ loopPc' = "crashed"
    /\ UNCHANGED <<invoices, step4Variant, tasks, task, found_new, callbacks, callVars,
                   proxyVars, extVars, unitVars>>

\* run_agent: _mark_session_status("working", ...) or ("ok", "Idle") raises
\* after the inner while; _set_setting has try/finally only
LoopStatusFails ==
    /\ loopPc = "dequeue"
    /\ ~HasFreeSlot(Cardinality(tasks)) \/ get_next_invoice(invoices).inv = 0
    /\ loopPc' = "crashed"
    /\ UNCHANGED <<invoices, step4Variant, tasks, task, found_new, callbacks, callVars,
                   proxyVars, extVars, unitVars>>

\* _poll_prmoney_once raises at _get_setting, at the pre-check query or at
\* _set_setting; run_prmoney_worker catches it, closes the session and sleeps
PrmPollFails ==
    /\ prm.pc \in {"sleep", "check", "finish"}
    /\ prm' = [prm EXCEPT !.pc = "sleep", !.polled = TRUE, !.http_ok = FALSE,
                          !.fetched = <<>>, !.new_items = <<>>]
    /\ UNCHANGED <<invoices, step4Variant, loopVars, task, callbacks, callVars, proxyVars,
                   failsSince, settings, response, workers, unitVars>>

\* _create_invoice_from_prmoney: db.commit() raises something other than
\* IntegrityError; it is caught, rolled back, and the loop over new_items goes on
PrmCommitFails ==
    /\ prm.pc = "commit"
    /\ prm' = PrmAdvance(prm)
    /\ UNCHANGED <<invoices, step4Variant, loopVars, task, callbacks, callVars, proxyVars,
                   failsSince, settings, response, workers, unitVars>>

InitFaulty ==
    /\ invoices = SeededTable(FaultInvoices)
    /\ step4Variant = "race"
    /\ loopPc = "sleep"
    /\ tasks = {}
    /\ task = <<>>
    /\ found_new = FALSE
    /\ callbacks = <<>>
    /\ cpc = IdleCallers
    /\ sel = NoSelection
    /\ claimed = <<>>
    /\ proxies = NoProxies
    /\ now = 0
    /\ lastCfg = None
    /\ failsSince = NoReports
    /\ settings = NoSettings
    /\ prm = [PrmIdle EXCEPT !.data = ExamplePayload]
    /\ response = 0
    /\ workers = NoWorkers
    /\ NoUnits

NextFaulty ==
    \/ LoopReap
    \/ LoopDequeue
    \/ LoopSleep
    \/ LoopDequeueFails
    \/ LoopStatusFails
    \/ \E t \in TaskIds : OpenPageDown(t)
    \/ PrmPollBegin
    \/ PrmPreCheck
    \/ PrmCommit
    \/ PrmFinish
    \/ PrmPollFails
    \/ PrmCommitFails

SpecFaulty == InitFaulty /\ [][NextFaulty]_vars

(***************************************************************************)
(* Several invoices in flight at once: a row is queued when the agent      *)
(* starts and the PrMoney worker inserts another while its task is running. *)
(* Every step of process_invoice may raise.                                *)
(***************************************************************************)
\* the array served to the PrMoney worker in SpecIsolation
IsoPayload ==
    << Item(Some(105), IntValue(0), "100", "9860046602662507", "Xujanazarov Islom",
            NoCardInfo) >>

InitIsolation ==
    /\ invoices = SeededTable(IsoInvoices)
    /\ step4Variant = "race"
    /\ loopPc = "sleep"
    /\ tasks = {}
    /\ task = <<>>
    /\ found_new = FALSE
    /\ callbacks = <<>>
    /\ cpc = IdleCallers
    /\ sel = NoSelection
    /\ claimed = <<>>
    /\ proxies = NoProxies
    /\ now = 0
    /\ lastCfg = None
    /\ failsSince = NoReports
    /\ settings = NoSettings
    /\ prm = [PrmIdle EXCEPT !.data = IsoPayload]
    /\ response = 0
    /\ workers = NoWorkers
    /\ NoUnits

NextIsolation ==
    \/ LoopReap
    \/ LoopDequeue
    \/ LoopSleep
    \/ \E t \in TaskIds : OpenPage(t)
    \/ \E t \in TaskIds : Goto(t)
    \/ \E t \in TaskIds : Step1(t)
    \/ \E t \in TaskIds : Step2(t)
    \/ \E t \in TaskIds : Step3(t)
    \/ \E t \in TaskIds : Step4Race(t)
    \/ PrmPollBegin
    \/ PrmPreCheck
    \/ PrmCommit
    \/ PrmFinish

SpecIsolation == InitIsolation /\ [][NextIsolation]_vars

(***************************************************************************)
(* multitransfer_step3._normalize_date_for_multitransfer.  A text is a     *)
(* sequence of one-character strings.                                      *)
(***************************************************************************)
DigitChars == <<"0", "1", "2", "3", "4", "5", "6", "7", "8", "9">>

\* the character of a digit
Ch(n) == DigitChars[n + 1]

\* the digit of a character
Val(c) == CHOOSE n \in 0..9 : DigitChars[n + 1] = c

IsDigits(s) == \A k \in 1..Len(s) : \E n \in 0..9 : s[k] = Ch(n)

\* str.strip()
RECURSIVE Strip(_)
Strip(s) ==
    IF s = <<>> THEN s
    ELSE IF Head(s) = " " THEN Strip(Tail(s))
    ELSE IF s[Len(s)] = " " THEN Strip(SubSeq(s, 1, Len(s) - 1))
    ELSE s

\* the pieces of s between the occurrences of the character sep
RECURSIVE SplitOn(_, _)
SplitOn(s, sep) ==
    IF \A k \in 1..Len(s) : s[k] # sep THEN <<s>>
    ELSE LET k == CHOOSE j \in 1..Len(s) : s[j] = sep /\ \A i \in 1..(j - 1) : s[i] # sep
         IN  <<SubSeq(s, 1, k - 1)>> \o SplitOn(SubSeq(s, k + 1, Len(s)), sep)

\* the number a run of one or two digits denotes
Num2(f) == IF Len(f) = 1 THEN Val(f[1]) ELSE 10 * Val(f[1]) + Val(f[2])

\* _strptime directive of one or two digits with a value in lo..hi:
\* %d 1..31, %m 1..12, %H 0..23, %M 0..59, %S 0..61
Field2(f, lo, hi) ==
    IF Len(f) \in 1..2 /\ IsDigits(f) /\ Num2(f) \in lo..hi THEN Some(Num2(f)) ELSE None

\* _strptime %Y: exactly four digits
FieldY(f) ==
    IF Len(f) = 4 /\ IsDigits(f)
    THEN Some(1000 * Val(f[1]) + 100 * Val(f[2]) + 10 * Val(f[3]) + Val(f[4])) ELSE None

IsLeap(y) == (y % 4 = 0 /\ y % 100 # 0) \/ y % 400 = 0

\* calendar.monthrange
DaysIn(m, y) ==
    IF m = 2 THEN (IF IsLeap(y) THEN 29 ELSE 28)
    ELSE IF m \in {4, 6, 9, 11} THEN 30 ELSE 31

\* the date part: three fields separated by sep, the year first or last;
\* datetime(...) raises ValueError on a day the month does not have
ParseDate(s, sep, yearFirst) ==
    LET f == SplitOn(s, sep) IN
    IF Len(f) # 3 THEN None
    ELSE LET y == FieldY(IF yearFirst THEN f[1] ELSE f[3])
             m == Field2(f[2], 1, 12)
             d == Field2(IF yearFirst THEN f[3] ELSE f[1], 1, 31)
         IN  IF y = None \/ m = None \/ d = None THEN None
             ELSE IF d[1] > DaysIn(m[1], y[1]) THEN None
             ELSE Some([d |-> d[1], m |-> m[1], y |-> y[1]])

\* the time part %H:%M:%S
ParseTime(s) ==
    LET f == SplitOn(s, ":") IN
    /\ Len(f) = 3
    /\ Field2(f[1], 0, 23) # None
    /\ Field2(f[2], 0, 59) # None
    /\ Field2(f[3], 0, 61) # None

\* datetime.strptime(raw, fmt) for the five formats of the function: None
\* stands for ValueError
strptime(raw, fmt) ==
    CASE fmt = "%d.%m.%Y" -> ParseDate(raw, ".", FALSE)
      [] fmt = "%Y-%m-%d" -> ParseDate(raw, "-", TRUE)
      [] fmt = "%d-%m-%Y" -> ParseDate(raw, "-", FALSE)
      [] fmt = "%Y.%m.%d" -> ParseDate(raw, ".", TRUE)
      [] fmt = "%Y-%m-%d %H:%M:%S" ->
            LET p == SplitOn(raw, " ") IN
            IF Len(p) = 2 /\ ParseTime(p[2]) THEN ParseDate(p[1], "-", TRUE) ELSE None

\* two decimal digits
Pad2(n) == <<Ch(n \div 10), Ch(n % 10)>>

\* four decimal digits
Pad4(n) == <<Ch(n \div 1000), Ch((n \div 100) % 10), Ch((n \div 10) % 10), Ch(n % 10)>>

\* dt.strftime("%d.%m.%Y")
strftime(dt) == Pad2(dt.d) \o <<".">> \o Pad2(dt.m) \o <<".">> \o Pad4(dt.y)

\* the formats in the order they are tried
DateFormats == <<"%d.%m.%Y", "%Y-%m-%d", "%Y-%m-%d %H:%M:%S", "%d-%m-%Y", "%Y.%m.%d">>

\* the function without raw = str(value).strip()
_normalize_date_unstripped(value) ==
    IF value = None \/ value[1] = <<>> THEN None
    ELSE LET raw == value[1]
             hits == {k \in 1..Len(DateFormats) : strptime(raw, DateFormats[k]) # None}
         IN  IF raw = <<>> THEN None
             ELSE IF hits = {} THEN Some(raw)
             ELSE Some(strftime(strptime(raw, DateFormats[Min(hits)])[1]))

\* _normalize_date_for_multitransfer(value): value is None or a text
_normalize_date_for_multitransfer(value) ==
    IF value = None \/ value[1] = <<>> THEN None
    ELSE LET raw == Strip(value[1])
             hits == {k \in 1..Len(DateFormats) : strptime(raw, DateFormats[k]) # None}
         IN  IF raw = <<>> THEN None
             ELSE IF hits = {} THEN Some(raw)
             ELSE Some(strftime(strptime(raw, DateFormats[Min(hits)])[1]))

\* the day, month and year numbers the inputs are written from
DateDays   == {0, 1, 26, 29, 31, 32}
DateMonths == {2, 8, 12, 13}
DateYears  == {2020, 2021}
DateShapes == {"YYYY-MM-DD", "YYYY-MM-DD HH:MM:SS", "DD-MM-YYYY", "YYYY.MM.DD", "DD.MM.YYYY"}

\* a day or month number written with or without its leading zero
Written(n, padded) == IF padded \/ n >= 10 THEN Pad2(n) ELSE <<Ch(n)>>

\* the date d.m.y written in a shape
Render(shape, d, m, y, padded) ==
    LET dd == Written(d, padded)
        mm == Written(m, padded)
        yy == Pad4(y)
    IN  CASE shape = "YYYY-MM-DD" -> yy \o <<"-">> \o mm \o <<"-">> \o dd
          [] shape = "YYYY-MM-DD HH:MM:SS" ->
                yy \o <<"-">> \o mm \o <<"-">> \o dd \o <<" ", "1", "0", ":", "3", "0", ":", "0", "0">>
          [] shape = "DD-MM-YYYY" -> dd \o <<"-">> \o mm \o <<"-">> \o yy
          [] shape = "YYYY.MM.DD" -> yy \o <<".">> \o mm \o <<".">> \o dd
          [] shape = "DD.MM.YYYY" -> dd \o <<".">> \o mm \o <<".">> \o yy

\* texts in none of the shapes
OtherTexts ==
    { <<"n", "/", "a">>, <<"2", "6", "/", "0", "8", "/", "2", "0", "2", "1">>,
      <<"2", "0", "2", "1", "0", "8", "2", "6">>,
      <<" ">>, <<" ", "n", "/", "a">>, <<"2", "6", ".", "0", "8", ".", "2", "1">>,
      <<"2", "0", "2", "1", "-", "0", "8", "-", "2", "6", " ", "1", "0", ":", "3", "0">> }

\* whether d.m.y is a date of the calendar
IsDate(d, m, y) == m \in 1..12 /\ d \in 1..DaysIn(m, y)

\* a call with a date written in one of the shapes, or with another text, or
\* with None; surrounded says whether the text is given with blanks around it
Normalize ==
    /\ norm.pc = "idle"
    /\ \/ \E shape \in DateShapes, d \in DateDays, m \in DateMonths, y \in DateYears,
             padded \in BOOLEAN, surrounded \in BOOLEAN :
            LET text == Render(shape, d, m, y, padded)
                value == Some(IF surrounded THEN <<" ">> \o text \o <<" ">> ELSE text)
            IN  norm' = [pc |-> "once", value |-> value,
                         date |-> IF IsDate(d, m, y)
                                  THEN Some([d |-> d, m |-> m, y |-> y]) ELSE None,
                         out |-> _normalize_date_for_multitransfer(value),
                         again |-> None]
       \/ \E value \in {Some(t) : t \in OtherTexts} \cup {None, Some(<<>>)} :
            norm' = [pc |-> "once", value |-> value, date |-> None,
                     out |-> _normalize_date_for_multitransfer(value), again |-> None]
    /\ UNCHANGED <<invoices, step4Variant, loopVars, task, callbacks, callVars, proxyVars,
                   extVars, tool, extract, bg, fill, race>>

\* the call on the result of the first call
NormalizeAgain ==
    /\ norm.pc = "once"
    /\ norm' = [norm EXCEPT !.pc = "twice",
                            !.again = _normalize_date_for_multitransfer(norm.out)]
    /\ UNCHANGED <<invoices, step4Variant, loopVars, task, callbacks, callVars, proxyVars,
                   extVars, tool, extract, bg, fill, race>>

InitDate ==
    /\ invoices = <<>>
    /\ step4Variant = "race"
    /\ loopPc = "sleep"
    /\ tasks = {}
    /\ task = <<>>
    /\ found_new = FALSE
    /\ callbacks = <<>>
    /\ cpc = IdleCallers
    /\ sel = NoSelection
    /\ claimed = <<>>
    /\ proxies = NoProxies
    /\ now = 0
    /\ lastCfg = None
    /\ failsSince = NoReports
    /\ settings = NoSettings
    /\ prm = PrmIdle
    /\ response = 0
    /\ workers = NoWorkers
    /\ NoUnits

NextDate ==
    \/ Normalize
    \/ NormalizeAgain

SpecDate == InitDate /\ [][NextDate]_vars

(***************************************************************************)
(* multitransfer_step4._extract_deeplink_from_text on characters: the      *)
(* regular expression, the trimming and the keyword test computed on       *)
(* sequences of one-character strings.  The token tables at the top of the *)
(* module are compared with these.                                         *)
(***************************************************************************)
LowerLetters == {"a", "b", "c", "d", "e", "f", "g", "h", "i", "j", "k", "l", "m", "n", "o", "p", "q", "r", "s", "t", "u", "v", "w", "x", "y", "z"}

UpperLetters == {"A", "B", "C", "D", "E", "F", "G", "H", "I", "J", "K", "L", "M", "N", "O", "P", "Q", "R", "S", "T", "U", "V", "W", "X", "Y", "Z"}

\* [a-zA-Z]
Letters == LowerLetters \cup UpperLetters

\* [a-zA-Z0-9+.\-]
SchemeChars == Letters \cup {DigitChars[k] : k \in 1..10} \cup {"+", ".", "-"}

\* the characters [^\s"'<>] excludes
UrlEnders == {" ", "\"", "'", "<", ">"}

\* the argument of the second strip of _clean
TrimChars == {"'", ",", "\"", "(", ")", "[", "]", "{", "}"}

\* the first index from i on whose character is in set, Len(s) + 1 when none is
RECURSIVE FirstIn(_, _, _)
FirstIn(s, i, set) ==
    IF i > Len(s) THEN Len(s) + 1
    ELSE IF s[i] \in set THEN i
    ELSE FirstIn(s, i + 1, set)

\* the first index from i on whose character is not in set
RECURSIVE FirstNotIn(_, _, _)
FirstNotIn(s, i, set) ==
    IF i > Len(s) THEN Len(s) + 1
    ELSE IF s[i] \notin set THEN i
    ELSE FirstNotIn(s, i + 1, set)

\* _DEEPLINK_URL_RE matched at position i: the index of the last character of
\* the match, 0 when the expression does not match there
MatchAt(s, i) ==
    IF s[i] \notin Letters THEN 0
    ELSE LET k == FirstNotIn(s, i, SchemeChars) IN
         IF k + 3 > Len(s) THEN 0
         ELSE IF <<s[k], s[k + 1], s[k + 2]>> # <<":", "/", "/">> THEN 0
         ELSE IF s[k + 3] \in UrlEnders THEN 0
         ELSE FirstIn(s, k + 3, UrlEnders) - 1

\* _DEEPLINK_URL_RE.findall(text) from position i on
RECURSIVE FindAllFrom(_, _)
FindAllFrom(s, i) ==
    IF i > Len(s) THEN <<>>
    ELSE IF MatchAt(s, i) = 0 THEN FindAllFrom(s, i + 1)
    ELSE <<SubSeq(s, i, MatchAt(s, i))>> \o FindAllFrom(s, MatchAt(s, i) + 1)

\* str.strip(chars)
RECURSIVE StripSet(_, _)
StripSet(s, set) ==
    IF s = <<>> THEN s
    ELSE IF Head(s) \in set THEN StripSet(Tail(s), set)
    ELSE IF s[Len(s)] \in set THEN StripSet(SubSeq(s, 1, Len(s) - 1), set)
    ELSE s

\* _clean(url) on characters
_clean_chars(url) == StripSet(StripSet(url, {" "}), TrimChars)

\* k in s
Contains(k, s) == \E i \in 1..(Len(s) - Len(k) + 1) : SubSeq(s, i, i + Len(k) - 1) = k

\* DEEP_LINK_KEYWORDS, spelled
KeywordChars ==
    { <<"q", "r", ".", "n", "s", "p", "k", ".", "r", "u">>,
      <<"S", "B", "P", "Q", "R", ":", "/", "/">>,
      <<"s", "b", "p", "q", "r", ":", "/", "/">>,
      <<"m", "c", "a", "s", "h", ":", "/", "/">> }

\* any(k in url for k in DEEP_LINK_KEYWORDS)
AnyKeyword(url) == \E k \in KeywordChars : Contains(k, url)

\* for raw in candidates: url = _clean(raw); if any(k in url ...): return url
RECURSIVE FirstWithKeyword(_, _)
FirstWithKeyword(candidates, n) ==
    IF n > Len(candidates) THEN None
    ELSE IF AnyKeyword(_clean_chars(candidates[n])) THEN Some(_clean_chars(candidates[n]))
    ELSE FirstWithKeyword(candidates, n + 1)

\* the function without the keyword test: the first candidate is returned
_extract_first_url_from_chars(text) ==
    IF text = <<>> \/ FindAllFrom(text, 1) = <<>> THEN None
    ELSE Some(_clean_chars(FindAllFrom(text, 1)[1]))

\* _extract_deeplink_from_text(text) on characters, text not None
_extract_deeplink_from_chars(text) ==
    IF text = <<>> THEN None ELSE FirstWithKeyword(FindAllFrom(text, 1), 1)

\* the characters of the strings of the token tables
Spell(tok) ==
    CASE tok = "noise" ->
            <<"n", "o", "i", "s", "e">>
      [] tok = "https://qr.nspk.ru/A" ->
            <<"h", "t", "t", "p", "s", ":", "/", "/", "q", "r", ".", "n", "s", "p", "k", ".", "r", "u", "/", "A">>
      [] tok = "(sbpqr://B)," ->
            <<"(", "s", "b", "p", "q", "r", ":", "/", "/", "B", ")", ",">>
      [] tok = "https://example.com/foo" ->
            <<"h", "t", "t", "p", "s", ":", "/", "/", "e", "x", "a", "m", "p", "l", "e", ".", "c", "o", "m", "/", "f", "o", "o">>
      [] tok = "qr.nspk.ru/C" ->
            <<"q", "r", ".", "n", "s", "p", "k", ".", "r", "u", "/", "C">>
      [] tok = "sbpqr://B)," ->
            <<"s", "b", "p", "q", "r", ":", "/", "/", "B", ")", ",">>
      [] tok = "sbpqr://B" ->
            <<"s", "b", "p", "q", "r", ":", "/", "/", "B">>
      [] tok = "https://qr.nspk.ru/CB" ->
            <<"h", "t", "t", "p", "s", ":", "/", "/", "q", "r", ".", "n", "s", "p", "k", ".", "r", "u", "/", "C", "B">>

\* " ".join of the spelled tokens
RECURSIVE SpellText(_)
SpellText(text) ==
    IF text = <<>> THEN <<>>
    ELSE IF Len(text) = 1 THEN Spell(text[1])
    ELSE Spell(text[1]) \o <<" ">> \o SpellText(Tail(text))

\* texts that are not made of the tokens
OtherPieces ==
    { <<"\"", "m", "c", "a", "s", "h", ":", "/", "/", "x", "\"">>,
      <<"S", "B", "P", "Q", "R", ":", "/", "/", "Q", "1">>,
      <<"1", "h", "t", "t", "p", ":", "/", "/", "q", "r", ".", "n", "s", "p", "k", ".", "r", "u">>,
      <<"a", "+", "b", ".", "c", "-", "1", ":", "/", "/", "[", "x", "]">>,
      <<":", "/", "/", "q", "r", ".", "n", "s", "p", "k", ".", "r", "u">>,
      <<"s", "e", "e", ":", "m", "c", "a", "s", "h", ":", "/", "/">>,
      <<"{", "s", "b", "p", "q", "r", ":", "/", "/", "}">>,
      <<"f", "t", "p", ":", "/", "/", "a", "<", "b">>,
      <<"h", "t", "t", "p", "s", ":", "/", "/", "e", "x", "a", "m", "p", "l", "e", ".", "c", "o", "m", "/", "?", "u", "=", "q", "r", ".", "n", "s", "p", "k", ".", "r", "u">> }

\* the texts of at most two tokens
TokenTexts == SeqsUpTo(Tokens, 2)

\* what may stand between two pieces of a text
Joiners == {<<" ">>, <<"\"">>, <<",">>, <<>>}

\* a call on a text of tokens, where the token tables are evaluated as well,
\* or on a text of one or two other pieces
Extract ==
    /\ extract.pc = "idle"
    /\ \/ \E text \in TokenTexts :
            extract' = [pc |-> "done", text |-> SpellText(text),
                        tokens |-> Some(text),
                        table |-> _extract_deeplink_from_text(Some(text)),
                        out |-> _extract_deeplink_from_chars(SpellText(text))]
       \/ \E a \in OtherPieces, b \in OtherPieces \cup {<<>>}, j \in Joiners :
            extract' = [pc |-> "done", text |-> a \o j \o b, tokens |-> None,
                        table |-> None,
                        out |-> _extract_deeplink_from_chars(a \o j \o b)]
    /\ UNCHANGED <<invoices, step4Variant, loopVars, task, callbacks, callVars, proxyVars,
                   extVars, tool, norm, bg, fill, race>>

InitExtract ==
    /\ invoices = SeededTable(NumInvoices)
    /\ step4Variant \in {"race", "network"}
    /\ loopPc = "sleep"
    /\ tasks = {}
    /\ task = <<>>
    /\ found_new = FALSE
    /\ callbacks = <<>>
    /\ cpc = IdleCallers
    /\ sel = NoSelection
    /\ claimed = <<>>
    /\ proxies = NoProxies
    /\ now = 0
    /\ lastCfg = None
    /\ failsSince = NoReports
    /\ settings = NoSettings
    /\ prm = PrmIdle
    /\ response = 0
    /\ workers = NoWorkers
    /\ NoUnits

NextExtract ==
    \/ Extract
    \/ LoopReap
    \/ LoopDequeue
    \/ LoopSleep
    \/ \E t \in TaskIds : OpenPage(t)
    \/ \E t \in TaskIds : Goto(t)
    \/ \E t \in TaskIds : Step1(t)
    \/ \E t \in TaskIds : Step2(t)
    \/ \E t \in TaskIds : Step3(t)
    \/ \E t \in TaskIds : Step4Race(t)
    \/ \E t \in TaskIds : Step4Network(t)

SpecExtract == InitExtract /\ [][NextExtract]_vars

(***************************************************************************)
(* The pipeline on a form whose fields may not be found or may refuse the  *)
(* value.                                                                  *)
(***************************************************************************)
InitFields ==
    /\ invoices = SeededTable(FieldInvoices)
    /\ step4Variant \in {"race", "network"}
    /\ loopPc = "sleep"
    /\ tasks = {}
    /\ task = <<>>
    /\ found_new = FALSE
    /\ callbacks = <<>>
    /\ cpc = IdleCallers
    /\ sel = NoSelection
    /\ claimed = <<>>
    /\ proxies = NoProxies
    /\ now = 0
    /\ lastCfg = None
    /\ failsSince = NoReports
    /\ settings = NoSettings
    /\ prm = PrmIdle
    /\ response = 0
    /\ workers = NoWorkers
    /\ NoUnits

NextFields ==
    \/ LoopReap
    \/ LoopDequeue
    \/ LoopSleep
    \/ \E t \in TaskIds : OpenPage(t)
    \/ \E t \in TaskIds : Goto(t)
    \/ \E t \in TaskIds : Step1(t)
    \/ \E t \in TaskIds : Step2(t)
    \/ \E t \in TaskIds : Step3Fields(t)
    \/ \E t \in TaskIds : Step4Race(t)
    \/ \E t \in TaskIds : Step4Network(t)

SpecFields == InitFields /\ [][NextFields]_vars

(***************************************************************************)
(* BrowserTool (browser/browser_tool.py): start() and close().  A          *)
(* reference is None or the number of the start() that made the object;    *)
(* open holds the Playwright objects made and not closed.                  *)
(***************************************************************************)

\* the starts of one tool that are followed
MaxStarts == 2

\* where start() raises: at async_playwright().start(), at the launch, at
\* new_context, at new_page, at the helper script, or nowhere
StartStages == <<"pw", "launch", "context", "page", "script", "ok">>

StageOf(name) == CHOOSE i \in 1..Len(StartStages) : StartStages[i] = name

\* the layers close() shuts, in its order
Layers == <<"context", "browser", "pw">>

\* BrowserTool.start, raising at the given stage: the assignments before the
\* raising statement are kept
start(tl, stage) ==
    LET n    == tl.starts + 1
        upto == StageOf(stage)
    IN  [tl EXCEPT
            !._pw      = IF upto > 1 THEN Some(n) ELSE @,
            !._browser = IF upto > 2 THEN Some(n) ELSE @,
            !._context = IF upto > 3 THEN Some(n) ELSE @,
            !.page     = IF upto > 4 THEN Some(n) ELSE @,
            !.open     = @ \cup (IF upto > 1 THEN {<<"pw", n>>} ELSE {})
                           \cup (IF upto > 2 THEN {<<"browser", n>>} ELSE {})
                           \cup (IF upto > 3 THEN {<<"context", n>>} ELSE {}),
            !.starts   = n,
            !.last     = "start",
            !.tried    = {},
            !.raised   = stage # "ok"]

\* BrowserTool.close; fail: the layers whose close()/stop() raises.
\* try/finally clears _context and lets the exception of _context.close()
\* leave close(); the same for _browser; _pw and page are cleared after a
\* stop() that returned.
close(tl, fail) ==
    LET ctx_tried == tl._context # None
        ctx_raise == ctx_tried /\ "context" \in fail
        br_tried  == ~ctx_raise /\ tl._browser # None
        br_raise  == br_tried /\ "browser" \in fail
        reach_pw  == ~ctx_raise /\ ~br_raise
        pw_tried  == reach_pw /\ tl._pw # None
        pw_raise  == pw_tried /\ "pw" \in fail
        shut      == (IF ctx_tried /\ ~ctx_raise THEN {<<"context", tl._context[1]>>} ELSE {})
                       \cup (IF br_tried /\ ~br_raise THEN {<<"browser", tl._browser[1]>>} ELSE {})
                       \cup (IF pw_tried /\ ~pw_raise THEN {<<"pw", tl._pw[1]>>} ELSE {})
    IN  [tl EXCEPT
            !._context = None,
            !._browser = IF ctx_raise THEN @ ELSE None,
            !._pw      = IF reach_pw /\ ~pw_raise THEN None ELSE @,
            !.page     = IF reach_pw /\ ~pw_raise THEN None ELSE @,
            !.open     = @ \ shut,
            !.last     = "close",
            !.tried    = (IF ctx_tried THEN {"context"} ELSE {})
                           \cup (IF br_tried THEN {"browser"} ELSE {})
                           \cup (IF pw_tried THEN {"pw"} ELSE {}),
            !.raised   = ctx_raise \/ br_raise \/ pw_raise]

ToolStart ==
    /\ tool.starts < MaxStarts
    /\ \E i \in 1..Len(StartStages) : tool' = start(tool, StartStages[i])
    /\ UNCHANGED <<invoices, step4Variant, loopVars, task, callbacks, callVars, proxyVars,
                   extVars, norm, extract, bg, fill, race>>

ToolClose ==
    /\ \E fail \in SUBSET {Layers[i] : i \in 1..Len(Layers)} : tool' = close(tool, fail)
    /\ UNCHANGED <<invoices, step4Variant, loopVars, task, callbacks, callVars, proxyVars,
                   extVars, norm, extract, bg, fill, race>>

InitTool ==
    /\ invoices = <<>>
    /\ step4Variant = "network"
    /\ loopPc = "sleep"
    /\ tasks = {}
    /\ task = <<>>
    /\ found_new = FALSE
    /\ callbacks = <<>>
    /\ cpc = IdleCallers
    /\ sel = NoSelection
    /\ claimed = <<>>
    /\ proxies = NoProxies
    /\ now = 0
    /\ lastCfg = None
    /\ failsSince = NoReports
    /\ settings = NoSettings
    /\ prm = PrmIdle
    /\ response = 0
    /\ workers = NoWorkers
    /\ NoUnits

NextTool == ToolStart \/ ToolClose

SpecTool == InitTool /\ [][NextTool]_vars

(***************************************************************************)
(* The agent under fair scheduling: the main loop keeps turning and every  *)
(* step of a task that can run does run (each site wait returns or times   *)
(* out).  The agent process may be killed and started again while a task   *)
(* is in flight.                                                           *)
(***************************************************************************)
\* invoices queued when the agent starts
LiveInvoices == 1

\* the agent process ends and run_agent starts again: the tasks of the old
\* process are gone with it, tasks = set() again, the table stays as it was
AgentRestart ==
    /\ \E t \in tasks : ~IsDone(t)
    /\ task' = [t \in TaskIds |-> IF t \in tasks /\ ~IsDone(t)
                                  THEN [task[t] EXCEPT !.pc = "done"]
                                  ELSE task[t]]
    /\ tasks' = {}
    /\ found_new' = FALSE
    /\ loopPc' = "sleep"
    /\ UNCHANGED <<invoices, step4Variant, callbacks, callVars, proxyVars, extVars, unitVars>>

InitLive ==
    /\ invoices = SeededTable(LiveInvoices)
    /\ step4Variant \in {"race", "network"}
    /\ loopPc = "sleep"
    /\ tasks = {}
    /\ task = <<>>
    /\ found_new = FALSE
    /\ callbacks = <<>>
    /\ cpc = IdleCallers
    /\ sel = NoSelection
    /\ claimed = <<>>
    /\ proxies = NoProxies
    /\ now = 0
    /\ lastCfg = None
    /\ failsSince = NoReports
    /\ settings = NoSettings
    /\ prm = PrmIdle
    /\ response = 0
    /\ workers = NoWorkers
    /\ NoUnits

NextLive ==
    \/ LoopReap
    \/ LoopDequeue
    \/ LoopSleep
    \/ AgentRestart
    \/ \E t \in TaskIds : OpenPage(t)
    \/ \E t \in TaskIds : Goto(t)
    \/ \E t \in TaskIds : Step1(t)
    \/ \E t \in TaskIds : Step2(t)
    \/ \E t \in TaskIds : Step3(t)
    \/ \E t \in TaskIds : Step4Race(t)
    \/ \E t \in TaskIds : Step4Network(t)

\* the loop keeps turning; a task runs during the sleeps of the loop, so a
\* step that can run in sleep after sleep does run; a restart is not owed
FairLive ==
    /\ WF_vars(LoopReap) /\ WF_vars(LoopDequeue) /\ WF_vars(LoopSleep)
    /\ SF_vars(\E t \in TaskIds : OpenPage(t))
    /\ SF_vars(\E t \in TaskIds : Goto(t))
    /\ SF_vars(\E t \in TaskIds : Step1(t))
    /\ SF_vars(\E t \in TaskIds : Step2(t))
    /\ SF_vars(\E t \in TaskIds : Step3(t))
    /\ SF_vars(\E t \in TaskIds : Step4Race(t))
    /\ SF_vars(\E t \in TaskIds : Step4Network(t))

SpecLive == InitLive /\ [][NextLive]_vars /\ FairLive

(***************************************************************************)
(* Properties.                                                             *)
(***************************************************************************)

\* webhooks of a given status POSTed by task t
Sent(t, status) == {k \in 1..Len(task[t].sent) : task[t].sent[k].status = status}

\* the task ended with an exception raised inside Step 1, 2, 3 or 4
FailedInStep(t) == IsDone(t) /\ task[t].exc # None /\ task[t].steps # <<>>

\* C1: when get_next_invoice is invoked concurrently by several callers, no
\* invoice is returned to two callers: all claims are of distinct invoices.
C1_ExclusiveAdmission ==
    \A a \in DOMAIN claimed : \A b \in DOMAIN claimed :
        a # b => claimed[a].inv # claimed[b].inv

\* C2: the invoices dequeued by the loop whose task has not finished, and the
\* tasks the loop tracks, never number more than MAX_CONCURRENT_INVOICES; so no
\* invoice is dequeued while that many tasks are tracked.
C2_BoundedConcurrency ==
    /\ Cardinality({t \in TaskIds : ~IsDone(t)}) <= MAX_CONCURRENT_INVOICES
    /\ Cardinality(tasks) <= MAX_CONCURRENT_INVOICES
    /\ SemaphoreValue >= 0

\* C2: the limit is reached while an invoice is still queued
C2_Witness ==
    /\ Cardinality(tasks) = MAX_CONCURRENT_INVOICES
    /\ Cardinality({t \in TaskIds : ~IsDone(t)}) = MAX_CONCURRENT_INVOICES
    /\ \E i \in InvIds : invoices[i].status = "queued"

TerminalStatuses == {"created", "processed", "error"}

StatusRank(st) ==
    CASE st = "queued" -> 0 [] st = "processing" -> 1 [] st = "waiting_captcha" -> 2
      [] OTHER -> 3

\* a status change allowed by the path queued -> processing -> waiting_captcha
\* -> created | processed, or to error
Forward(old, new) ==
    \/ new = old
    \/ old \notin TerminalStatuses /\ new = "error"
    \/ old \notin TerminalStatuses /\ StatusRank(new) > StatusRank(old)

\* C3: the status of an invoice only moves forward, under every interleaving of
\* the agent loop, the step pipeline and the deeplink callback.
C3_MonotonicStatus ==
    [][\A i \in DOMAIN invoices : Forward(invoices[i].status, invoices'[i].status)]_vars

\* C4: an invoice in status error has no deeplink, whichever component wrote
\* the status.
C4_ErrorClearsDeeplink ==
    \A i \in InvIds : invoices[i].status = "error" => invoices[i].deeplink = None

\* C5: an invoice attempt that failed in one of Steps 1-4 has sent exactly one
\* "No Terminals" webhook.
C5_OneFailureNotification ==
    \A t \in TaskIds : FailedInStep(t) => Cardinality(Sent(t, "No Terminals")) = 1

OfferMatches(bank_name, page) ==
    \E el \in page :
        \/ TextMatches(bank_name, el)
        \/ \E k \in 1..Len(bank_name) :
              WordLen(bank_name[k]) >= 3 /\ TextMatches(<<bank_name[k]>>, el)

\* the exception is Step 2's bank-not-found error
IsBankNotFound(exc) == exc # None /\ exc[1].text = "BANK_NOT_FOUND"

\* whatever the site shows, a bank that matches no offer in either wave (the
\* page living through both) makes step2_select_bank raise BANK_NOT_FOUND with
\* the bank name
Step2RaisesOnMismatch ==
    \A form \in InvoiceForms, page1 \in Pages, page2 \in Pages,
       clickable \in BOOLEAN, site \in Step2Sites :
        (/\ form.recipient_bank # <<>>
         /\ site # "page_error"
         /\ ~OfferMatches(form.recipient_bank, page1)
         /\ ~OfferMatches(form.recipient_bank, page2))
        => /\ IsBankNotFound(step2_select_bank(form.recipient_bank,
                                               page1, page2, clickable, site))
           /\ step2_select_bank(form.recipient_bank, page1, page2, clickable, site)[1].arg
                = form.recipient_bank

\* C7: when recipient_bank matches none of the offered banks in either wave,
\* Step 2 raises the BANK_NOT_FOUND error; and at the step where a task ends
\* with it, Steps 3 and 4 have not run and never will, the row has status
\* error, no deeplink and an error_message with the bank name, and the task
\* has sent exactly one webhook, a "No Terminals" one.
C7_BankMismatch ==
    [][/\ Step2RaisesOnMismatch
       /\ \A t \in TaskIds :
             (task[t].pc = "step2" /\ IsBankNotFound(task'[t].exc)) =>
                 /\ task'[t].pc = "done"
                 /\ task'[t].steps = <<1, 2>>
                 /\ invoices'[task[t].inv].status = "error"
                 /\ invoices'[task[t].inv].deeplink = None
                 /\ invoices'[task[t].inv].error_message = task'[t].exc
                 /\ task'[t].exc[1].arg = invoices[task[t].inv].recipient_bank
                 /\ task'[t].exc[1].arg # <<>>
                 /\ Len(task'[t].sent) = 1
                 /\ task'[t].sent[1].status = "No Terminals"
       /\ \A t \in TaskIds : IsDone(t) => task'[t] = task[t]]_vars

\* C7: a task has ended with BANK_NOT_FOUND and the row shows it
C7_Witness ==
    \E t \in TaskIds :
        /\ IsDone(t) /\ IsBankNotFound(task[t].exc)
        /\ invoices[task[t].inv].status = "error"
        /\ invoices[task[t].inv].error_message = task[t].exc

SuccessShape(h) == h.status = "created" /\ h.deeplink # <<>> /\ h.error = None

FailureShape(h) ==
    /\ h.status = "No Terminals"
    /\ h.deeplink = <<>>
    /\ h.error # None
    /\ NonEmptyMsg(h.error[1])

\* C8: every webhook of an attempt that returned a deeplink has status created,
\* a non-empty deeplink and no error key; every webhook of an attempt that
\* failed has status "No Terminals", deeplink "" and a non-empty error.
C8_WebhookShape ==
    \A t \in TaskIds : \A k \in 1..Len(task[t].sent) :
        /\ SuccessShape(task[t].sent[k]) \/ FailureShape(task[t].sent[k])
        /\ SuccessShape(task[t].sent[k]) <=> (IsDone(t) /\ task[t].ret # None)
        /\ FailureShape(task[t].sent[k]) <=> (IsDone(t) /\ task[t].exc # None)

\* C8: one attempt has sent a failure webhook and another a success webhook
C8_Witness ==
    \E t \in TaskIds : \E u \in TaskIds :
        /\ Sent(t, "No Terminals") # {}
        /\ Sent(u, "created") # {}

\* C9: an invoice is flipped from queued to processing only when no invoice
\* with a smaller id is queued.
C9_DequeueOrder ==
    [][\A i \in DOMAIN invoices :
          (invoices[i].status = "queued" /\ invoices'[i].status = "processing") =>
              \A j \in 1..(i - 1) : invoices[j].status # "queued"]_vars

\* C9: the second invoice has been dequeued while later ones are queued
C9_Witness ==
    /\ Len(task) = 2
    /\ task[1].inv = 1 /\ task[2].inv = 2
    /\ invoices[2].status = "processing"
    /\ invoices[3].status = "queued"

\* C10: at the step where get_next_proxy_for_launch returns a proxy, the proxy
\* was active, no other active proxy precedes it under (fail_count ascending,
\* absent last_used_at first, last_used_at ascending, id ascending), and its
\* last_used_at is stamped with the current time.
C10_ProxySelection ==
    [][(lastCfg = None /\ lastCfg' # None) =>
          /\ lastCfg'[1] \in ProxyIds
          /\ proxies[lastCfg'[1]].is_active
          /\ proxies'[lastCfg'[1]].last_used_at = Some(now)
          /\ \A j \in ProxyIds \ {lastCfg'[1]} :
                proxies[j].is_active =>
                    /\ proxies[lastCfg'[1]].fail_count <= proxies[j].fail_count
                    /\ proxies[lastCfg'[1]].fail_count = proxies[j].fail_count =>
                          /\ proxies[j].last_used_at = None
                                => proxies[lastCfg'[1]].last_used_at = None
                          /\ (proxies[j].last_used_at # None
                                /\ proxies[lastCfg'[1]].last_used_at # None)
                                => proxies[lastCfg'[1]].last_used_at[1] <= proxies[j].last_used_at[1]
                          /\ proxies[j].last_used_at = proxies[lastCfg'[1]].last_used_at
                                => lastCfg'[1] < j]_vars

\* C10: a proxy was selected ahead of an active proxy with more failures and of
\* an equally healthy active proxy used before
C10_Witness ==
    /\ lastCfg # None
    /\ proxies[lastCfg[1]].last_used_at = Some(now)
    /\ \E j \in ProxyIds : \E k \in ProxyIds :
        /\ j # lastCfg[1] /\ k # lastCfg[1] /\ j # k
        /\ proxies[j].is_active
        /\ proxies[j].fail_count > proxies[lastCfg[1]].fail_count
        /\ proxies[k].is_active
        /\ proxies[k].fail_count = proxies[lastCfg[1]].fail_count
        /\ proxies[k].last_used_at # None
        /\ proxies[k].last_used_at[1] < now

\* C11: on every proxy, fail_count equals the number of mark_proxy_fail reports
\* since the last mark_proxy_success report; a failure report leaves an active
\* proxy active while that number is 1 or 2 and switches it off when it reaches
\* 3; a success report sets fail_count = 0 and is_active = TRUE.
C11_ProxyThreshold ==
    [][ /\ \A p \in DOMAIN proxies' : proxies'[p].fail_count = failsSince'[p]
        /\ (OpenContextLaunchFails /\ lastCfg # None) =>
              LET p == lastCfg[1] IN
              proxies'[p].is_active = (proxies[p].is_active /\ failsSince'[p] < 3)
        /\ (OpenContextLaunched /\ lastCfg # None) =>
              LET p == lastCfg[1] IN
              proxies'[p].fail_count = 0 /\ proxies'[p].is_active ]_vars

\* a proxy switched off by its third consecutive failure report
C11_Witness ==
    \E p \in ProxyIds :
        /\ failsSince[p] = 3
        /\ proxies[p].fail_count = 3
        /\ ~proxies[p].is_active
        /\ proxies[p].last_used_at # None

\* C12: when the browser launch with the selected proxy fails, the proxy's
\* fail_count is incremented and the agent goes on to its main loop on a direct
\* connection instead of terminating; when the launch with a proxy succeeds,
\* that proxy is marked successful.
C12_LaunchFallback ==
    [][ /\ (OpenContextLaunchFails /\ lastCfg # None) =>
              /\ proxies'[lastCfg[1]].fail_count = proxies[lastCfg[1]].fail_count + 1
              /\ loopPc' = "sleep"
        /\ (OpenContextLaunched /\ lastCfg # None) =>
              /\ proxies'[lastCfg[1]].fail_count = 0
              /\ proxies'[lastCfg[1]].is_active
              /\ loopPc' = "sleep" ]_vars

\* the largest element of a non-empty set of numbers
Max(S) == CHOOSE x \in S : \A y \in S : x >= y

\* the elements of a sequence
Range(f) == {f[k] : k \in DOMAIN f}

\* C13: in each poll cycle exactly the fetched items with status 0 and an id
\* above PRMONEY_LAST_ID are taken for insertion, in ascending id order; the
\* cycle leaves the watermark at the maximum of its previous value and the
\* largest id taken; the watermark never decreases and the worker never inserts
\* a row for an id at or below the watermark.
C13_Watermark ==
    [][ /\ LastId(settings') >= LastId(settings)
        /\ PrmPollBegin =>
              /\ \A k \in 1..Len(prm'.new_items) :
                    /\ prm'.new_items[k].status = 0
                    /\ prm'.new_items[k].id > LastId(settings)
                    /\ prm'.new_items[k] \in Range(prm'.fetched)
                    /\ k > 1 => prm'.new_items[k - 1].id <= prm'.new_items[k].id
              /\ \A inv \in Range(prm'.fetched) :
                    (inv.status = 0 /\ inv.id > LastId(settings))
                        => inv \in Range(prm'.new_items)
              /\ prm'.new_items = <<>> => UNCHANGED settings
        /\ PrmCommit /\ invoices' # invoices =>
              invoices'[Len(invoices')].invoice_id > LastId(settings)
        /\ PrmFinish =>
              LastId(settings') = Max({LastId(settings)} \cup Range(prm.considered)) ]_vars

\* C13: the watermark was 100, the array held ids 98, 105, 101, and the cycle
\* took 101 and then 105 and left the watermark at 105
C13_Witness ==
    /\ prm.pc = "sleep"
    /\ prm.data = ExamplePayload
    /\ prm.last_id = 100
    /\ prm.considered = <<101, 105>>
    /\ settings.PRMONEY_LAST_ID = Some(<<1, 0, 5>>)
    /\ FindByExt(invoices, 98) = 0

\* C14: no two invoice rows share an invoice_id, and an attempt to insert an
\* invoice_id that already exists, by the PrMoney worker or by the admin
\* creation form, is skipped without an unhandled error reaching the caller
\* (the form is never answered with a 500).
C14_UniqueInvoiceId ==
    /\ \A i \in InvIds : \A j \in InvIds :
          invoices[i].invoice_id = invoices[j].invoice_id => i = j
    /\ response # 500

\* the ids of the objects of an array that satisfy a test, in array order
IdsWhere(data, Test(_)) ==
    LET kept == SelectSeq(data, Test) IN [k \in 1..Len(kept) |-> kept[k].id]

\* the ids of the invoices fetch_pending_invoices returned
FetchedIds == [k \in 1..Len(prm.fetched) |-> Some(prm.fetched[k].id)]

\* the status is the integer 0 or, trimmed and lower-cased, one of the four words
PendingAsClaimed(item) ==
    \/ item.status.type = "int" /\ item.status.int = 0
    \/ /\ item.status.type = "str"
       /\ StripLower(item.status.str) \in {"0", "queued", "pending", "waiting"}

\* the status is pending as claimed or the boolean false, and the object maps:
\* it has a numeric id and amount, and no card_info that parses to a list
RetainedAsAmended(item) ==
    /\ PendingAsClaimed(item) \/ (item.status.type = "bool" /\ item.status.int = 0)
    /\ item.id # None
    /\ item.amount \in {"100", "0", ""}
    /\ item.card_info.kind # "json_list"

C16_RecipientMapping ==
    [][ (PrmCommit /\ invoices' # invoices) =>
          LET pr_inv == Head(prm.new_items)
              row == invoices'[Len(invoices')]
          IN  /\ pr_inv.card_number # "UNKNOWN" =>
                    /\ row.recipient_card_number = pr_inv.card_number
                    /\ row.recipient_requisites.card = pr_inv.card_number
              /\ pr_inv.holder # "Unknown" =>
                    /\ row.recipient_name = pr_inv.holder
                    /\ row.recipient_requisites.holder = pr_inv.holder ]_vars

\* C17: for each worker, start on a worker that is running spawns no process
\* and leaves the tracked process unchanged; stop with no tracked worker changes
\* nothing; after stop returns the status accessor reports "stopped" for that
\* worker; the accessor reports "running" exactly when a tracked process exists
\* and is alive.
C17_Idempotent ==
    [][ \A w \in WorkerNames :
          /\ (StartWorker(w) /\ workers.tracked[w] # None
                             /\ workers.tracked[w][1] \in workers.alive) =>
                /\ workers'.tracked = workers.tracked
                /\ workers'.alive = workers.alive
                /\ workers'.spawned = workers.spawned
          /\ (StopWorker(w) /\ workers.tracked[w] = None) =>
                /\ workers'.tracked = workers.tracked
                /\ workers'.alive = workers.alive
                /\ workers'.spawned = workers.spawned
          /\ StopWorker(w) => get_workers_status(workers')[w] = "stopped"
          /\ get_workers_status(workers')[w] = "running"
                <=> /\ workers'.tracked[w] # None
                    /\ workers'.tracked[w][1] \in workers'.alive ]_vars

\* C17: start was called on the running agent worker while the PrMoney worker,
\* stopped before, is not tracked
C17_Witness ==
    /\ workers.last = <<"start", "agent", "noop">>
    /\ get_workers_status(workers) = [prmoney |-> "stopped", agent |-> "running"]
    /\ workers.spawned = 2

\* the payload served by the last callback request
LastPayload == callbacks[Len(callbacks)]

\* the row with the payload's internal id, else the row with its external id, else 0
Matched(db, payload) ==
    IF payload.invoice_id \in DOMAIN db THEN payload.invoice_id
    ELSE IF \E i \in DOMAIN db : db[i].invoice_id = payload.invoice_external_id
         THEN CHOOSE i \in DOMAIN db : db[i].invoice_id = payload.invoice_external_id
         ELSE 0

\* C18: the callback looks the invoice up by internal id and, only when that
\* finds nothing, by external invoice_id; when neither matches it answers 404
\* and changes no row; otherwise the matched row, and no other, gets the
\* payload's deeplink and the payload's status ("created" for an empty status).
C18_Callback ==
    [][ invoice_deeplink_callback =>
          LET payload == callbacks'[Len(callbacks')]
              m == Matched(invoices, payload)
          IN  IF m = 0
              THEN response' = 404 /\ invoices' = invoices
              ELSE /\ response' = 200
                   /\ invoices'[m].deeplink = Some(payload.deeplink)
                   /\ invoices'[m].status = IF payload.status = "" THEN "created"
                                             ELSE payload.status
                   /\ \A i \in InvIds \ {m} : invoices'[i] = invoices[i] ]_vars

\* C18: a payload whose internal id names row 1 and whose external id names
\* row 2, with an empty status, updated row 1 only
C18_Witness ==
    /\ callbacks # <<>>
    /\ LastPayload.invoice_id = 1
    /\ LastPayload.invoice_external_id = invoices[2].invoice_id
    /\ LastPayload.status = ""
    /\ invoices[1].status = "created"
    /\ invoices[1].deeplink = Some(LastPayload.deeplink)
    /\ invoices[2].status = "queued"
    /\ response = 200

\* C19: a database operation that fails inside a poll cycle of the agent main
\* loop (get_next_invoice, the session-status write) or of the PrMoney worker
\* loop is caught, and the loop goes on to its next iteration.
C19_LoopsSurvive ==
    [][ /\ (LoopDequeueFails \/ LoopStatusFails) => loopPc' \in {"sleep", "dequeue"}
        /\ (PrmPollFails \/ PrmCommitFails) => prm'.pc \in {"sleep", "check", "finish"} ]_vars

\* a step of process_invoice for task t
TaskStep(t) ==
    \/ OpenPage(t)
    \/ Goto(t)
    \/ Step1(t)
    \/ Step2(t)
    \/ Step3(t)
    \/ Step4Race(t)

SomeTaskRaised == \E t \in TaskIds : task[t].exc # None

\* C20: the step in which the processing of one invoice raises leaves the main
\* loop where it was, changes status, deeplink and error_message of no other
\* invoice and touches no other task; after an exception the loop is never
\* terminated, every in-flight sibling that has its permit can take its next
\* step, and the loop can reap, dequeue and sleep as before.
C20_FailureIsolation ==
    /\ [][ \A t \in TaskIds :
              (task[t].exc = None /\ task'[t].exc # None) =>
                  /\ loopPc' = loopPc
                  /\ tasks' = tasks
                  /\ Len(task') = Len(task)
                  /\ \A u \in TaskIds \ {t} : task'[u] = task[u]
                  /\ DOMAIN invoices' = DOMAIN invoices
                  /\ \A i \in InvIds \ {task[t].inv} :
                        /\ invoices'[i].status = invoices[i].status
                        /\ invoices'[i].deeplink = invoices[i].deeplink
                        /\ invoices'[i].error_message = invoices[i].error_message ]_vars
    /\ [](SomeTaskRaised => loopPc \in {"sleep", "dequeue"})
    /\ [](SomeTaskRaised /\ loopPc = "sleep" =>
             /\ ENABLED LoopReap
             /\ \A u \in TaskIds :
                   (~IsDone(u) /\ (task[u].pc = "wait_slot" => SemaphoreValue > 0))
                       => ENABLED TaskStep(u))
    /\ [](SomeTaskRaised /\ loopPc = "dequeue" =>
             /\ ENABLED (LoopDequeue \/ LoopSleep)
             /\ (HasFreeSlot(Cardinality(tasks)) /\ FirstQueued(invoices) # 0)
                   => ENABLED LoopDequeue)

\* the task of the row the PrMoney worker inserted raised in a step, its row
\* is finalized and the loop has reaped it in a later iteration; the task
\* dequeued before it is still in flight on an untouched row
C20_Witness ==
    /\ Len(task) = 2
    /\ task[2].inv = 2 /\ invoices[2].invoice_id = 105
    /\ IsDone(2) /\ task[2].exc # None /\ task[2].steps # <<>>
    /\ invoices[2].status = "error"
    /\ 2 \notin tasks
    /\ task[1].inv = 1 /\ 1 \in tasks
    /\ task[1].pc \in {"step2", "step3", "step4"}
    /\ invoices[1].status \in {"processing", "waiting_captcha"}
    /\ invoices[1].error_message = None
    /\ loopPc = "dequeue"

\* the result the statement names for a call: the date as DD.MM.YYYY
Expected(dt) == Some(strftime(dt))

StartsUrl(s, i) ==
    /\ s[i] \in Letters
    /\ \E k \in (i + 1)..(Len(s) - 3) :
          /\ s[k] = ":" /\ s[k + 1] = "/" /\ s[k + 2] = "/"
          /\ s[k + 3] \notin UrlEnders
          /\ \A n \in i..(k - 1) : s[n] \in SchemeChars

\* the last position of the run of URL characters position i lies in
RunEnd(s, i) ==
    CHOOSE j \in i..Len(s) :
        /\ \A n \in i..j : s[n] \notin UrlEnders
        /\ j = Len(s) \/ s[j + 1] \in UrlEnders

\* c without the quotes, commas and brackets at its two ends
Trimmed(c) ==
    LET inner == {n \in 1..Len(c) : c[n] \notin TrimChars} IN
    IF inner = {} THEN <<>> ELSE SubSeq(c, Min(inner), Max(inner))

\* the URL candidates of s, each given by its first position: the leftmost
\* beginning of a URL in every run of URL characters
CandidateStarts(s) ==
    LET begins == {i \in 1..Len(s) : StartsUrl(s, i)} IN
    {i \in begins : \A h \in begins : h < i => RunEnd(s, h) < i}

\* the candidate that begins at position i, trimmed
CandidateAt(s, i) == Trimmed(SubSeq(s, i, RunEnd(s, i)))

\* C22: the result of the extraction is the first URL candidate of the text,
\* trimmed, that contains a recognized keyword, and there is no result when
\* the text has no candidate or no candidate contains a keyword; the token
\* tables used in Step 4 give the same result; a deeplink Step 4 returns,
\* stores or posts as created contains a recognized keyword.
C22_Extraction ==
    /\ extract.pc = "done" =>
          LET s == extract.text
              hits == {i \in CandidateStarts(s) : AnyKeyword(CandidateAt(s, i))}
          IN  /\ extract.out = IF hits = {} THEN None ELSE Some(CandidateAt(s, Min(hits)))
              /\ extract.tokens # None =>
                    IF extract.table = None THEN extract.out = None
                    ELSE extract.out = Some(SpellText(extract.table[1]))
    /\ \A t \in TaskIds :
          /\ task[t].ret # None =>
                /\ AnyKeyword(SpellText(task[t].ret[1]))
                /\ invoices[task[t].inv].status = "created"
                /\ invoices[task[t].inv].deeplink = task[t].ret
          /\ \A k \in 1..Len(task[t].sent) :
                task[t].sent[k].status = "created" =>
                    AnyKeyword(SpellText(task[t].sent[k].deeplink))

\* "noise (sbpqr://B)," was given and sbpqr://B came back, and a task's Step 4
\* returned a deeplink
C22_Witness ==
    /\ extract.pc = "done"
    /\ extract.tokens = Some(<<"noise", "(sbpqr://B),">>)
    /\ extract.out = Some(Spell("sbpqr://B"))
    /\ \E t \in TaskIds : task[t].ret # None

\* a is an initial piece of b
IsPrefix(a, b) == Len(a) <= Len(b) /\ a = SubSeq(b, 1, Len(a))

\* C23: the steps a task has entered are an initial piece of 1, 2, 3, 4; a
\* task with an exception is finished; a step is entered only by a task
\* without an exception and is the one after the last step entered; the
\* step in which Step 3 returns writes waiting_captcha and clears
\* error_message and only then is the task before Step 4; Step 4 is entered
\* only from there.
C23_StepSequence ==
    /\ [](\A t \in TaskIds :
            /\ IsPrefix(task[t].steps, <<1, 2, 3, 4>>)
            /\ task[t].exc # None => IsDone(t)
            /\ task[t].pc = "step4" => task[t].steps = <<1, 2, 3>>)
    /\ [][ \A t \in TaskIds :
            /\ task'[t].steps # task[t].steps =>
                  /\ task[t].exc = None
                  /\ ~IsDone(t)
                  /\ task'[t].steps = Append(task[t].steps, Len(task[t].steps) + 1)
            /\ (task'[t].steps = <<1, 2, 3>> /\ task[t].steps = <<1, 2>>
                  /\ task'[t].exc = None) =>
                  /\ task'[t].pc = "step4"
                  /\ invoices'[task[t].inv].status = "waiting_captcha"
                  /\ invoices'[task[t].inv].error_message = None
            /\ task'[t].steps = <<1, 2, 3, 4>> /\ task[t].steps # task'[t].steps =>
                  task[t].pc = "step4" ]_vars

\* a task went through the four steps and returned a deeplink
C23_Witness ==
    \E t \in TaskIds :
        /\ task[t].steps = <<1, 2, 3, 4>>
        /\ task[t].ret # None
        /\ task[t].exc = None
        /\ IsDone(t)

\* the row of the task of the last race run is an error row
RaceRowIsError ==
    /\ invoices'[task[race'.t].inv].status = "error"
    /\ invoices'[task[race'.t].inv].deeplink = None
    /\ invoices'[task[race'.t].inv].error_message # None

\* the task of the last race run returned and stored deeplink d and posted it
RaceReturned(d) ==
    /\ task'[race'.t].ret = d
    /\ task'[race'.t].exc = None
    /\ invoices'[task[race'.t].inv].status = "created"
    /\ invoices'[task[race'.t].inv].deeplink = d
    /\ task'[race'.t].sent = Append(task[race'.t].sent, _send_webhook(d, "created", None))

\* C24: in a run of the race variant that reached the final screen, the
\* deeplink of the /confirm response, when there is one in time, is returned
\* and stored whatever the console gave; the console deeplink is returned and
\* stored only when the network gave none; when neither gave one, or the
\* final screen was not reached, the row is an error row, one "No Terminals"
\* webhook is sent and Step 4 raises.
C24_NetworkFirst ==
    [][ race' # race =>
          /\ (race'.final_ok /\ race'.page_ok /\ Truthy(race'.net)) =>
                RaceReturned(race'.net)
          /\ (race'.final_ok /\ race'.page_ok /\ ~Truthy(race'.net) /\ Truthy(race'.con)) =>
                RaceReturned(race'.con)
          /\ (~race'.final_ok
                \/ (race'.page_ok /\ ~Truthy(race'.net) /\ ~Truthy(race'.con))) =>
                /\ RaceRowIsError
                /\ task'[race'.t].ret = None
                /\ task'[race'.t].exc # None
                /\ Len(task'[race'.t].sent) = Len(task[race'.t].sent) + 1
                /\ task'[race'.t].sent[Len(task'[race'.t].sent)].status = "No Terminals" ]_vars

\* both channels gave a deeplink, different ones, and the one of the network
\* was returned
C24_Witness ==
    /\ race.t # 0
    /\ race.final_ok /\ race.page_ok
    /\ Truthy(race.net) /\ Truthy(race.con)
    /\ race.net # race.con
    /\ task[race.t].ret = race.net

\* C25: when a run of Step 3 leaves a field unfilled (the label lookup and
\* the fill by name both failed, or there was no name to fall back to),
\* Step 3 raises: the task ends with an exception without entering Step 4
\* and its row is an error row.
C25_FillFailureFatal ==
    [][ (fill' # fill /\ fill'.result = "unfilled") =>
            /\ task'[fill'.t].exc # None
            /\ task'[fill'.t].pc = "done"
            /\ invoices'[task[fill'.t].inv].status = "error" ]_vars

\* C26: whenever Step 4 is left, by a return or by an exception, the
\* background task it created is finished or cancelled and its "response"
\* handler is off the page.
C26_BackgroundTasksEnd ==
    [][ bg' # bg => (bg'.task \in {"finished", "cancelled"} /\ ~bg'.handler) ]_vars

\* start() ran to its end and close() has not run since
ToolStarted(tl) ==
    /\ tl.last = "start" /\ ~tl.raised
    /\ tl._pw # None /\ tl._browser # None /\ tl._context # None /\ tl.page # None

\* C27: close() on a started BrowserTool attempts the close of the context,
\* of the browser and of the Playwright driver, and leaves _context,
\* _browser, _pw and page all None, whichever of the closes raises.
C27_CloseReleasesAll ==
    [][ (tool'.last = "close" /\ ToolStarted(tool)) =>
            /\ tool'.tried = {"context", "browser", "pw"}
            /\ tool'._context = None /\ tool'._browser = None
            /\ tool'._pw = None /\ tool'.page = None ]_vars

\* C28: under fair scheduling every invoice the agent flipped to processing
\* (or that waits for a captcha) eventually has status created or error.
C28_EventuallyFinalized ==
    \A i \in 1..LiveInvoices :
        (invoices[i].status \in {"processing", "waiting_captcha"})
            ~> (invoices[i].status \in {"created", "error"})

\* C29: whenever a poll advances PRMONEY_LAST_ID to m, every record the poll
\* fetched with status 0 and id <= m has a row with that invoice_id.
C29_WatermarkNeverSkips ==
    [][ settings'.PRMONEY_LAST_ID # settings.PRMONEY_LAST_ID =>
            \A k \in 1..Len(prm.fetched) :
                (prm.fetched[k].status = 0 /\ prm.fetched[k].id <= prm.max_id) =>
                    FindByExt(invoices', prm.fetched[k].id) # 0 ]_vars

\* the live processes spawned for worker w
LiveOfKind(w) == {pid \in workers.alive : workers.kind[pid] = w}

\* C30: at any time at most one live process spawned by the registry is of
\* a given worker kind.
C30_OnePerKind ==
    \A w \in WorkerNames : Cardinality(LiveOfKind(w)) <= 1

====
